---------------------------- MODULE Spec2Model ----------------------------
(***************************************************************************)
(* Model of the LangGraph agent server of AbletonSmartAssistant:           *)
(* the session table and the HTTP handlers of langgraph_server/main.py,    *)
(* the graph of langgraph_server/workflow.py and the node functions of     *)
(* langgraph_server/nodes.py.                                              *)
(*                                                                         *)
(* Encoding of Python values:                                              *)
(*   Optional[x]   None is <<>>, a present value x is <<x>>                *)
(*   str (inputs)  a TLA+ string; Chars gives its characters, so that      *)
(*                 `kw in s.lower()` is a real substring test              *)
(*   str (built)   a text: the sequence of the parts an f-string or a      *)
(*                 concatenation joins; None is <<>>, "" is <<"">>         *)
(*   dict          a record                                                *)
(*   list          a sequence, indexed from 1 (Python index i is i + 1)    *)
(***************************************************************************)
EXTENDS Integers, Sequences, FiniteSets, TLC

VARIABLES
    sessions,   \* main.py `sessions`: session_id -> session dict
    client,     \* nodes.py `client`: TRUE iff an OpenAI client was built
    rag_store,  \* rag.py `rag_store`: the two loaded indexes
    response,   \* the HTTP response of the last request
    turn,       \* history: the last request, the session before it, the calls made
    loop        \* uvicorn's event loop: connection -> the request it carries

vars == <<sessions, client, rag_store, response, turn, loop>>

-----------------------------------------------------------------------------
(* Bounds of the model *)

\* the largest number of steps a generation reply carries
MaxSteps == 3

\* the count of compatibility evaluations on a session is kept up to this value
MaxEvaluations == 2

\* connections the transport holds open at once
MaxConnections == 2

\* chunks an embedding file holds at most
MaxChunks == 3

\* components of a vector at most
MaxDim == 2

-----------------------------------------------------------------------------
(* Python values *)

None == <<>>
Some(x) == <<x>>
IsNone(v) == v = <<>>
Get(v) == v[1]

\* `v or ""` for an Optional[str]
OrEmpty(v) == IF v = <<>> THEN "" ELSE v[1]

\* truthiness of an Optional[str]
TruthyStr(v) == v # <<>> /\ v[1] # ""

\* truthiness of a text (None and "" are falsy)
TruthyText(t) == \E i \in DOMAIN t : t[i] # ""

\* f"{v}" of an Optional[str]
Fmt(v) == IF v = <<>> THEN "None" ELSE v[1]

Min(a, b) == IF a <= b THEN a ELSE b

Chars(s) ==
    CASE s = "" -> <<>>
      [] s = "How do I add an audio effect?" -> <<"H", "o", "w", " ", "d", "o", " ", "I", " ", "a", "d", "d", " ", "a", "n", " ", "a", "u", "d", "i", "o", " ", "e", "f", "f", "e", "c", "t", "?">>
      [] s = "yes" -> <<"y", "e", "s">>
      [] s = "no" -> <<"n", "o">>
      [] s = "next" -> <<"n", "e", "x", "t">>
      [] s = "skip" -> <<"s", "k", "i", "p">>
      [] s = "cancel" -> <<"c", "a", "n", "c", "e", "l">>
      [] s = "try anyway" -> <<"t", "r", "y", " ", "a", "n", "y", "w", "a", "y">>
      [] s = "not solved" -> <<"n", "o", "t", " ", "s", "o", "l", "v", "e", "d">>
      [] s = "show_button" -> <<"s", "h", "o", "w", "_", "b", "u", "t", "t", "o", "n">>
      [] s = "all the same" -> <<"a", "l", "l", " ", "t", "h", "e", " ", "s", "a", "m", "e">>
      [] s = "proceed anyway" -> <<"p", "r", "o", "c", "e", "e", "d", " ", "a", "n", "y", "w", "a", "y">>
      [] s = "new task" -> <<"n", "e", "w", " ", "t", "a", "s", "k">>
      [] s = "thanks" -> <<"t", "h", "a", "n", "k", "s">>
      [] s = "thank you" -> <<"t", "h", "a", "n", "k", " ", "y", "o", "u">>
      [] s = "show" -> <<"s", "h", "o", "w">>
      [] s = "start" -> <<"s", "t", "a", "r", "t">>
      [] s = "solved" -> <<"s", "o", "l", "v", "e", "d">>
      [] s = "done" -> <<"d", "o", "n", "e">>
      [] s = "completed" -> <<"c", "o", "m", "p", "l", "e", "t", "e", "d">>
      [] s = "finished" -> <<"f", "i", "n", "i", "s", "h", "e", "d">>
      [] s = "managed" -> <<"m", "a", "n", "a", "g", "e", "d">>
      [] s = "succeeded" -> <<"s", "u", "c", "c", "e", "e", "d", "e", "d">>
      [] s = "failed" -> <<"f", "a", "i", "l", "e", "d">>
      [] s = "didn't" -> <<"d", "i", "d", "n", "'", "t">>
      [] s = "couldn't" -> <<"c", "o", "u", "l", "d", "n", "'", "t">>
      [] s = "unable" -> <<"u", "n", "a", "b", "l", "e">>
      [] s = "click" -> <<"c", "l", "i", "c", "k">>
      [] s = "button" -> <<"b", "u", "t", "t", "o", "n">>
      [] s = "menu" -> <<"m", "e", "n", "u">>
      [] s = "select" -> <<"s", "e", "l", "e", "c", "t">>
      [] s = "press" -> <<"p", "r", "e", "s", "s">>
      [] s = "choose" -> <<"c", "h", "o", "o", "s", "e">>
      [] s = "open" -> <<"o", "p", "e", "n">>
      [] s = "ableton" -> <<"a", "b", "l", "e", "t", "o", "n">>
      [] s = "Click the Browser button" -> <<"C", "l", "i", "c", "k", " ", "t", "h", "e", " ", "B", "r", "o", "w", "s", "e", "r", " ", "b", "u", "t", "t", "o", "n">>
      [] s = "Drag Reverb onto the track" -> <<"D", "r", "a", "g", " ", "R", "e", "v", "e", "r", "b", " ", "o", "n", "t", "o", " ", "t", "h", "e", " ", "t", "r", "a", "c", "k">>
      [] s = "Press Play" -> <<"P", "r", "e", "s", "s", " ", "P", "l", "a", "y">>
      [] s = "ableton_question" -> <<"a", "b", "l", "e", "t", "o", "n", "_", "q", "u", "e", "s", "t", "i", "o", "n">>
      [] s = "other" -> <<"o", "t", "h", "e", "r">>

\* str.lower() on one character (the capitals that occur in the inputs)
LowerChar(c) ==
    CASE c = "H" -> "h"
      [] c = "I" -> "i"
      [] c = "C" -> "c"
      [] c = "B" -> "b"
      [] c = "D" -> "d"
      [] c = "R" -> "r"
      [] c = "P" -> "p"
      [] OTHER -> c

\* str.lower()
Lower(cs) == [i \in 1..Len(cs) |-> LowerChar(cs[i])]

\* `k in s` on character sequences
IsSubstr(k, s) ==
    \E i \in 1..(Len(s) - Len(k) + 1) : SubSeq(s, i, i + Len(k) - 1) = k

\* `kw in s.lower()`
Contains(kw, s) == IsSubstr(Chars(kw), Lower(Chars(s)))

\* any(kw in s.lower() for kw in kws)
ContainsAny(kws, s) == \E kw \in kws : Contains(kw, s)

-----------------------------------------------------------------------------
(* rag.py: the retrieval store *)

\* config.py RAG_TOP_K and VERSION_CHECK_TOP_K (their defaults)
RAG_TOP_K == 5
VERSION_CHECK_TOP_K == 2

\* the chunks the two embedding files can hold
ManualChunk == [id |-> "m1", content |-> "Audio effects are added from the browser.", embedding |-> <<1, 0>>]
VersionChunk == [id |-> "v1", content |-> "Feature X requires Suite edition.", embedding |-> <<0, 1>>]

\* the vectors the embedding capability can return for a query
QueryEmbeddings == {<<1, 1>>}

RECURSIVE SumSeq(_)
SumSeq(s) == IF s = <<>> THEN 0 ELSE s[1] + SumSeq(Tail(s))

\* sum(a * b for a, b in zip(vec1, vec2))
Dot(vec1, vec2) == SumSeq([i \in 1..Min(Len(vec1), Len(vec2)) |-> vec1[i] * vec2[i]])

\* what a division by zero raises
ZeroDivisionError == [raised |-> "ZeroDivisionError"]

\* dot_product / (magnitude1 * magnitude2), as the exact fraction
\* n/d = sign(cos) * cos^2, which orders pairs of vectors exactly as the cosine
\* does; m1 and m2 are the squares of the magnitudes
Quotient(dot, m1, m2) ==
    IF m1 * m2 = 0 THEN ZeroDivisionError
    ELSE [n |-> (IF dot < 0 THEN -1 ELSE 1) * dot * dot, d |-> m1 * m2]

\* _cosine_similarity without the test of the magnitudes
cosine_similarity_undivided(vec1, vec2) ==
    IF Len(vec1) # Len(vec2) THEN [n |-> 0, d |-> 1]
    ELSE Quotient(Dot(vec1, vec2), Dot(vec1, vec1), Dot(vec2, vec2))

\* RAGStore._cosine_similarity
cosine_similarity(vec1, vec2) ==
    IF Len(vec1) # Len(vec2) THEN [n |-> 0, d |-> 1]
    ELSE LET dot == Dot(vec1, vec2)
             m1 == Dot(vec1, vec1)
             m2 == Dot(vec2, vec2)
         IN  IF m1 = 0 \/ m2 = 0 THEN [n |-> 0, d |-> 1]
             ELSE Quotient(dot, m1, m2)

\* score a < score b
SimLess(a, b) == a.n * b.d < b.n * a.d

RemoveAt(s, i) == SubSeq(s, 1, i - 1) \o SubSeq(s, i + 1, Len(s))

\* scored.sort(key=lambda x: x[1], reverse=True): stable, descending
RECURSIVE SortByScoreDesc(_, _)
SortByScoreDesc(chunks, q) ==
    IF chunks = <<>> THEN <<>>
    ELSE LET score(i) == cosine_similarity(q, chunks[i].embedding)
             first == CHOOSE i \in 1..Len(chunks) :
                        /\ \A j \in 1..Len(chunks) : ~SimLess(score(i), score(j))
                        /\ \A j \in 1..(i - 1) : SimLess(score(j), score(i))
         IN  <<chunks[first]>> \o SortByScoreDesc(RemoveAt(chunks, first), q)

\* _top_matches were it to sort ascending and reverse the list: among equal
\* scores the chunk loaded last comes first
RECURSIVE SortAscendingReversed(_, _)
SortAscendingReversed(chunks, q) ==
    IF chunks = <<>> THEN <<>>
    ELSE LET score(i) == cosine_similarity(q, chunks[i].embedding)
             first == CHOOSE i \in 1..Len(chunks) :
                        /\ \A j \in 1..Len(chunks) : ~SimLess(score(i), score(j))
                        /\ \A j \in (i + 1)..Len(chunks) : SimLess(score(j), score(i))
         IN  <<chunks[first]>> \o SortAscendingReversed(RemoveAt(chunks, first), q)

\* _top_matches with the reversed ascending sort
top_matches_reversed(chunks, query_embedding, top_k) ==
    LET sorted == SortAscendingReversed(chunks, query_embedding)
    IN  SubSeq(sorted, 1, Min(top_k, Len(sorted)))

\* RAGStore._top_matches
top_matches(chunks, query_embedding, top_k) ==
    LET sorted == SortByScoreDesc(chunks, query_embedding)
    IN  SubSeq(sorted, 1, Min(top_k, Len(sorted)))

\* RAGStore._chunk_to_dict
chunk_to_dict(chunk) == [id |-> chunk.id, content |-> chunk.content]

\* RAGStore.retrieve
retrieve(store, query_embedding, edition, top_k) ==
    LET full_chunks == top_matches(store.full_index, query_embedding, top_k)
        version_chunks == top_matches(store.versions_index, query_embedding, VERSION_CHECK_TOP_K)
    IN  [full |-> [i \in 1..Len(full_chunks) |-> chunk_to_dict(full_chunks[i])],
         versions |-> [i \in 1..Len(version_chunks) |-> chunk_to_dict(version_chunks[i])]]

-----------------------------------------------------------------------------
(* The inputs of the handlers and the replies of the external capabilities *)

SessionIds == {"s1"}

\* the query of the scenarios
Query == "How do I add an audio effect?"

Editions == {"Live Intro"}
Histories == {<<>>}
Screenshots == {None, Some("shot.png")}

\* StepByStepRequest.rag_answer values
RagAnswers == {<<"1. Click the Browser button 2. Drag Reverb onto the track 3. Press Play">>}

\* the step texts a generation reply carries, by position
StepTextAt(i) ==
    CASE i = 1 -> "Click the Browser button"
      [] i = 2 -> "Drag Reverb onto the track"
      [] OTHER -> "Press Play"

\* the "steps" array of a generation reply: n steps, each with the
\* requires_click key rc (None when the key is missing)
ReplySteps(n, rc) == [i \in 1..n |-> [text |-> StepTextAt(i), requires_click |-> rc]]

Explanation == <<"To add an audio effect, drag it from the browser onto a track.">>

\* a chat completion either raises (ok = FALSE) or returns content
Raised == [ok |-> FALSE]

\* replies of the intent classifier
IntentReplies == {Raised} \cup {[ok |-> TRUE, content |-> c] : c \in {"ableton_question", "other", ""}}

\* replies of the compatibility verdict request (parsed JSON; a key may be missing)
VersionReplies ==
    {Raised,
     [ok |-> TRUE, allowed |-> None, explanation |-> None],
     [ok |-> TRUE, allowed |-> Some(TRUE), explanation |-> Some("none")],
     [ok |-> TRUE, allowed |-> Some(FALSE), explanation |-> Some("feature X requires Suite edition")]}

\* replies of answer generation and of step segmentation
GenReplies ==
    {Raised} \cup
    {[ok |-> TRUE, explanation |-> Some(Explanation), steps |-> ReplySteps(n, rc)] :
        n \in 0..MaxSteps, rc \in {None, Some(TRUE), Some(FALSE)}}

\* replies of the requires_click classifier
ClickReplies == {Raised, [ok |-> TRUE, requires_click |-> None],
                 [ok |-> TRUE, requires_click |-> Some(TRUE)],
                 [ok |-> TRUE, requires_click |-> Some(FALSE)]}

\* what re.search(r'\{[^}]+\}', text) and json.loads make of a vision reply:
\* no JSON object in the text, a malformed one, or the parsed object
NoJson == [ok |-> TRUE, json |-> "none"]
BadJson == [ok |-> TRUE, json |-> "malformed"]

LocateReplies ==
    {Raised, NoJson, BadJson,
     [ok |-> TRUE, json |-> "object", found |-> None, x |-> Some(10), y |-> Some(20), width |-> None, height |-> None],
     [ok |-> TRUE, json |-> "object", found |-> Some(FALSE), x |-> None, y |-> None, width |-> None, height |-> None]}

ValidationReplies ==
    {Raised, NoJson, BadJson,
     [ok |-> TRUE, json |-> "object", valid |-> None, explanation |-> None],
     [ok |-> TRUE, json |-> "object", valid |-> Some(TRUE), explanation |-> None],
     [ok |-> TRUE, json |-> "object", valid |-> Some(FALSE), explanation |-> Some("The browser is still closed.")],
     [ok |-> TRUE, json |-> "object", valid |-> Some(FALSE), explanation |-> None]}

FallbackReplies ==
    {Raised} \cup {[ok |-> TRUE, problematic_steps |-> p] : p \in {<<>>, <<0>>, <<1, 2>>}}

\* what a node that calls no capability is given
NoReply == Raised

\* the classifier's reply {"requires_click": null}: the key is present, its value
\* is not a boolean
NullClick == [ok |-> TRUE, requires_click |-> None, null |-> TRUE]
IsNullClick(r) == "null" \in DOMAIN r

\* check_ableton_version: the query embedding and the verdict
VersionCheckReplies(replies) == [qemb : QueryEmbeddings, version : replies]

\* retrieve_from_vectorstore: the query embedding
RetrieveReplies == [qemb : QueryEmbeddings]

\* analyze_screenshot_for_button: the screenshot file is missing, or the vision reply
LocateCallReplies(replies) ==
    {[file_exists |-> FALSE, locate |-> NoReply]} \cup
    {[file_exists |-> TRUE, locate |-> r] : r \in replies}

\* optional_validate_step: the screenshot file is missing, or the vision reply
ValidateCallReplies(replies) ==
    {[file_exists |-> FALSE, valid |-> NoReply]} \cup
    {[file_exists |-> TRUE, valid |-> r] : r \in replies}

\* the two embedding files: None when the file does not exist, else its chunks
FilesAbsent == [manual |-> None, versions |-> None]
FilesPresent == [manual |-> Some(<<ManualChunk>>), versions |-> Some(<<VersionChunk>>)]

\* RAGStore.__init__ and _load_indexes: an index stays [] when its file is absent
load_indexes(files) ==
    [full_index |-> IF IsNone(files.manual) THEN <<>> ELSE Get(files.manual),
     versions_index |-> IF IsNone(files.versions) THEN <<>> ELSE Get(files.versions)]

\* the two indexes as _load_indexes leaves them: nothing loaded, or one chunk each
EmptyStore == load_indexes(FilesAbsent)
LoadedStore == load_indexes(FilesPresent)

\* An environment: the requests the clients send and the replies the external
\* capabilities give.  Every specification below runs all the handlers; each
\* draws the requests and replies from its environment.

\* the walk through the steps: every user action of /step, every validation
\* reply; the chat side answers an in-scope, compatible query
EnvStep ==
    [clients |-> BOOLEAN,
     stores |-> {EmptyStore},
     new_messages |-> {Query},
     rag_answers |-> RagAnswers,
     request_ids |-> SessionIds,
     connections |-> {},
     chat_messages |-> {"yes", "show_button"},
     step_actions |-> {"next", "skip", "cancel", "yes", "no", "not solved"},
     intent |-> {[ok |-> TRUE, content |-> "ableton_question"]},
     version |-> {Raised},
     gen |-> {[ok |-> TRUE, explanation |-> Some(Explanation), steps |-> ReplySteps(n, None)] :
                n \in 0..MaxSteps},
     click |-> {Raised},
     locate |-> {NoJson},
     valid |-> ValidationReplies]

\* the conversation: a query in or out of scope, a compatibility verdict for or
\* against, an answer with or without steps, the chat replies to the two
\* prompts; the walk through the steps is plain
EnvChat ==
    [clients |-> BOOLEAN,
     stores |-> {LoadedStore},
     new_messages |-> {Query},
     rag_answers |-> RagAnswers,
     request_ids |-> SessionIds,
     connections |-> {},
     chat_messages |-> {"yes", "try anyway", "show_button"},
     step_actions |-> {"next", "yes"},
     intent |-> {Raised} \cup
                {[ok |-> TRUE, content |-> c] : c \in {"ableton_question", "other", ""}},
     version |-> {Raised,
                  [ok |-> TRUE, allowed |-> Some(FALSE),
                   explanation |-> Some("feature X requires Suite edition")],
                  [ok |-> TRUE, allowed |-> Some(TRUE),
                   explanation |-> Some("available in every edition")]},
     gen |-> {[ok |-> TRUE, explanation |-> Some(Explanation), steps |-> ReplySteps(n, None)] :
                n \in {0, MaxSteps}},
     click |-> {Raised},
     locate |-> {NoJson},
     valid |-> {Raised}]

\* the replies to the completion question, routed by the edge that leaves
\* final_confirmation; the review of the steps flags none, the first, or the
\* second and third
EnvGraph ==
    [clients |-> {TRUE},
     stores |-> {EmptyStore},
     new_messages |-> {Query},
     rag_answers |-> RagAnswers,
     request_ids |-> SessionIds,
     connections |-> {},
     chat_messages |-> {"yes"},
     step_actions |-> {"no", "failed", "yes"},
     intent |-> {[ok |-> TRUE, content |-> "ableton_question"]},
     version |-> {Raised},
     gen |-> {[ok |-> TRUE, explanation |-> Some(Explanation), steps |-> ReplySteps(n, None)] :
                n \in 1..MaxSteps},
     click |-> {Raised, [ok |-> TRUE, requires_click |-> Some(FALSE)]},
     locate |-> {NoJson},
     valid |-> {Raised}]

\* the entry with a supplied answer: the answer present or empty, the
\* segmentation returning steps, none, or raising, with and without a client
EnvSeed ==
    [clients |-> BOOLEAN,
     stores |-> {EmptyStore},
     new_messages |-> {Query},
     rag_answers |-> RagAnswers \cup {<<"">>},
     request_ids |-> SessionIds,
     connections |-> {},
     chat_messages |-> {"yes", "show_button"},
     step_actions |-> {"next", "yes"},
     intent |-> {[ok |-> TRUE, content |-> "ableton_question"]},
     version |-> {Raised},
     gen |-> {Raised} \cup
             {[ok |-> TRUE, explanation |-> Some(Explanation), steps |-> ReplySteps(n, None)] :
                n \in {0, 2}},
     click |-> {Raised},
     locate |-> {NoJson},
     valid |-> {Raised}]

\* the walk with a classifier that answers with a boolean or with null
EnvFault ==
    [clients |-> {TRUE},
     stores |-> {EmptyStore},
     new_messages |-> {Query},
     rag_answers |-> RagAnswers,
     request_ids |-> SessionIds,
     connections |-> {},
     chat_messages |-> {"yes", "show_button"},
     step_actions |-> {"next", "no"},
     intent |-> {[ok |-> TRUE, content |-> "ableton_question"]},
     version |-> {Raised},
     gen |-> {[ok |-> TRUE, explanation |-> Some(Explanation), steps |-> ReplySteps(n, None)] :
                n \in {1, MaxSteps}},
     click |-> {NullClick, [ok |-> TRUE, requires_click |-> Some(TRUE)]},
     locate |-> {NoJson},
     valid |-> {Raised}]

\* an identifier no session is ever created under
UnknownIds == {"s0"}

\* the step indexes a /step/validate request names
StepIndexes == 0..MaxSteps

\* the requests that name a session: the step action, the validation of a step
\* and the status query, for the identifier of the table and for an unknown one
EnvQuery ==
    [clients |-> {TRUE},
     stores |-> {EmptyStore},
     new_messages |-> {Query},
     rag_answers |-> RagAnswers,
     request_ids |-> SessionIds \cup UnknownIds,
     connections |-> {},
     chat_messages |-> {"yes", "show_button"},
     step_actions |-> {"next"},
     intent |-> {[ok |-> TRUE, content |-> "ableton_question"]},
     version |-> {Raised},
     gen |-> {[ok |-> TRUE, explanation |-> Some(Explanation), steps |-> ReplySteps(n, None)] :
                n \in {0, 2}},
     click |-> {[ok |-> TRUE, requires_click |-> Some(TRUE)]},
     locate |-> {NoJson},
     valid |-> {Raised,
                [ok |-> TRUE, json |-> "object", valid |-> Some(FALSE), explanation |-> None]}]

\* the endpoints that run a turn of the conversation
TurnEndpoints == {"chat", "step", "chat_step_by_step"}

\* requests for one session identifier arriving over several connections at once
EnvLoop ==
    [clients |-> {TRUE},
     stores |-> {EmptyStore},
     new_messages |-> {Query},
     rag_answers |-> {<<"Open the browser. Drag a clip.">>},
     request_ids |-> SessionIds,
     connections |-> 1..MaxConnections,
     chat_messages |-> {"yes", "show_button"},
     step_actions |-> {"next"},
     intent |-> {[ok |-> TRUE, content |-> "ableton_question"]},
     version |-> {Raised},
     gen |-> {[ok |-> TRUE, explanation |-> Some(Explanation), steps |-> ReplySteps(2, None)]},
     click |-> {[ok |-> TRUE, requires_click |-> Some(FALSE)]},
     locate |-> {NoJson},
     valid |-> {Raised}]

\* the chunks an embedding file can hold: two with the same embedding, one
\* orthogonal to them, one whose embedding has another length
ChunkPool ==
    {[id |-> "a", content |-> "Audio effects are added from the browser.", embedding |-> <<1, 0>>],
     [id |-> "b", content |-> "Drag a clip to a track.", embedding |-> <<1, 0>>],
     [id |-> "c", content |-> "Feature X requires Suite edition.", embedding |-> <<0, 1>>],
     [id |-> "d", content |-> "Max for Live ships with Suite.", embedding |-> <<1>>]}

\* the lists of chunks a file can load: any order, no chunk twice
RECURSIVE IndexesOf(_)
IndexesOf(n) ==
    IF n = 0 THEN {<<>>}
    ELSE IndexesOf(n - 1) \cup
         {Append(index, chunk) : index \in {i \in IndexesOf(n - 1) : Len(i) = n - 1},
                                 chunk \in ChunkPool} 

Indexes == {index \in IndexesOf(MaxChunks) :
              \A i, j \in DOMAIN index : i # j => index[i].id # index[j].id}

\* the vectors a query is embedded as
QueryVectors == {<<1, 0>>, <<0, 0>>, <<2, -1>>}

\* the values of top_k: none, fewer than a file holds, the default RAG_TOP_K
TopKs == {0, 1, RAG_TOP_K}

\* calls of the retrieval store on every pair of loaded indexes
EnvRetrieve ==
    [clients |-> {TRUE},
     stores |-> [full_index : Indexes,
                 versions_index : {index \in Indexes : Len(index) \in {0, MaxChunks}}],
     connections |-> {},
     editions |-> {"Live Intro", "Live Suite"},
     queries |-> QueryVectors,
     top_ks |-> TopKs]

\* the components of the vectors
Components == {-1, 0, 1, 2}

\* the vectors: empty, of one component, of two
RECURSIVE VectorsOf(_)
VectorsOf(n) ==
    IF n = 0 THEN {<<>>}
    ELSE VectorsOf(n - 1) \cup
         {Append(v, x) : v \in {u \in VectorsOf(n - 1) : Len(u) = n - 1}, x \in Components}

Vectors == VectorsOf(MaxDim)

\* calls of the similarity on every pair of vectors
EnvCosine ==
    [clients |-> {TRUE},
     stores |-> {EmptyStore},
     connections |-> {},
     vectors |-> Vectors]

\* the server started with neither embedding file present; the compatibility
\* capability, were it asked, would answer against the request
EnvAbsent ==
    [clients |-> {TRUE},
     stores |-> {load_indexes(FilesAbsent)},
     new_messages |-> {Query},
     rag_answers |-> {<<"Open the browser. Drag a clip.">>},
     request_ids |-> SessionIds,
     connections |-> {},
     chat_messages |-> {"yes", "show_button"},
     step_actions |-> {"next"},
     intent |-> {[ok |-> TRUE, content |-> "ableton_question"]},
     version |-> {[ok |-> TRUE, allowed |-> Some(FALSE),
                   explanation |-> Some("feature X requires Suite edition")]},
     gen |-> {[ok |-> TRUE, explanation |-> Some(Explanation), steps |-> ReplySteps(n, None)] :
                n \in {0, 2}},
     click |-> {[ok |-> TRUE, requires_click |-> Some(FALSE)]},
     locate |-> {NoJson},
     valid |-> {Raised},
     editions |-> {"Live Intro"},
     queries |-> {<<1, 0>>, <<0, 0>>},
     top_ks |-> {1, RAG_TOP_K}]

\* the button is asked for again and again on the same step; the vision
\* capability finds it, or answers with text that holds no JSON object, or with
\* a malformed one
EnvLocate ==
    [clients |-> {TRUE},
     stores |-> {EmptyStore},
     new_messages |-> {Query},
     rag_answers |-> {<<"Open the browser. Drag a clip.">>},
     request_ids |-> SessionIds,
     connections |-> {},
     chat_messages |-> {"yes", "show_button"},
     step_actions |-> {"next"},
     intent |-> {[ok |-> TRUE, content |-> "ableton_question"]},
     version |-> {Raised},
     gen |-> {[ok |-> TRUE, explanation |-> Some(Explanation), steps |-> ReplySteps(2, None)]},
     click |-> {[ok |-> TRUE, requires_click |-> Some(TRUE)]},
     locate |-> LocateReplies,
     valid |-> {Raised}]

\* the walk through steps that do and do not require a click, with and without
\* a screenshot, by next and by skip; the vision capability finds the step not
\* done
EnvValidate ==
    [clients |-> {TRUE},
     stores |-> {EmptyStore},
     new_messages |-> {Query},
     rag_answers |-> {<<"Open the browser. Drag a clip.">>},
     request_ids |-> SessionIds,
     connections |-> {},
     chat_messages |-> {"yes", "show_button"},
     step_actions |-> {"next", "skip"},
     intent |-> {[ok |-> TRUE, content |-> "ableton_question"]},
     version |-> {Raised},
     gen |-> {[ok |-> TRUE, explanation |-> Some(Explanation), steps |-> ReplySteps(2, None)]},
     click |-> {[ok |-> TRUE, requires_click |-> Some(TRUE)],
                [ok |-> TRUE, requires_click |-> Some(FALSE)]},
     locate |-> {NoJson},
     valid |-> {[ok |-> TRUE, json |-> "object", valid |-> Some(FALSE),
                 explanation |-> Some("The browser is still closed.")]}]
-----------------------------------------------------------------------------
(* nodes.py: the node functions.  Each takes the state dict (and the replies *)
(* of the external capabilities it may call) and returns the state dict.     *)

\* the sentinel that opens a validation warning and the compatibility prompt
WarningSign == "(warning sign)"

\* "Step {number} of {total}:"
StepHeader(number, total) == <<"Step ", ToString(number), " of ", ToString(total), ":">>

\* "Step {i + 1} of {len(steps)}:\n{text}" for the step at Python index i
StepHeaderText(i, steps) == StepHeader(i + 1, Len(steps)) \o <<"\n", steps[i + 1].text>>

\* "{step_header}\n{last_step_text}\n\n{completion_question}"
CompletionText(number, total, last_step_text, completion_question) ==
    StepHeader(number, total) \o <<"\n", last_step_text, "\n\n", completion_question>>

CompletionQuestion == "Did you manage to solve the task?"

\* detect_user_intent
detect_user_intent(state, r) ==
    IF ~client THEN [state EXCEPT !.intent = Some("ableton_question")]
    ELSE IF ~r.ok THEN [state EXCEPT !.intent = Some("ableton_question")]
    ELSE IF r.content # ""
         THEN IF Contains("ableton", r.content)
              THEN [state EXCEPT !.intent = Some("ableton_question")]
              ELSE [state EXCEPT !.intent = Some("other")]
         ELSE [state EXCEPT !.intent = Some("ableton_question")]

\* check_ableton_version: the user chose to proceed despite the verdict
ProceedAnyway(user_choice) ==
    ContainsAny({"try anyway", "all the same", "proceed anyway"}, OrEmpty(user_choice))

\* the guard that forgets the recorded verdict
VersionCheckGuardForgets(state) ==
    IF ProceedAnyway(state.user_choice) THEN "proceed" ELSE "evaluate"

\* check_ableton_version: what the node does before any call: it returns at
\* once when the user chose to proceed or a verdict is recorded, else it
\* evaluates (retrieval of the version chunks, then the verdict request)
VersionCheckGuard(state) ==
    IF ProceedAnyway(state.user_choice) THEN "proceed"
    ELSE IF ~IsNone(state.allowed) THEN "recorded"
    ELSE "evaluate"

\* check_ableton_version without `if not version_chunks`: the capability is asked
\* whatever retrieve returned
check_ableton_version_asks(state, r) ==
    IF VersionCheckGuard(state) = "proceed" THEN [state EXCEPT !.allowed = Some(TRUE)]
    ELSE IF VersionCheckGuard(state) = "recorded" THEN state
    ELSE IF ~client THEN [state EXCEPT !.allowed = Some(TRUE)]
    ELSE IF ~r.version.ok THEN [state EXCEPT !.allowed = Some(TRUE)]
    ELSE [state EXCEPT
            !.allowed = IF IsNone(r.version.allowed) THEN Some(TRUE) ELSE r.version.allowed,
            !.version_explanation = r.version.explanation]

\* check_ableton_version
check_ableton_version(state, r) ==
    IF VersionCheckGuard(state) = "proceed" THEN [state EXCEPT !.allowed = Some(TRUE)]
    ELSE IF VersionCheckGuard(state) = "recorded" THEN state
    ELSE LET results == retrieve(rag_store, r.qemb, state.ableton_edition, 2)
             version_chunks == results.versions
         IN  IF version_chunks = <<>> THEN [state EXCEPT !.allowed = Some(TRUE)]
             ELSE IF ~client THEN [state EXCEPT !.allowed = Some(TRUE)]
             ELSE IF ~r.version.ok THEN [state EXCEPT !.allowed = Some(TRUE)]
             ELSE [state EXCEPT
                     !.allowed = IF IsNone(r.version.allowed) THEN Some(TRUE) ELSE r.version.allowed,
                     !.version_explanation = r.version.explanation]

\* wait_for_version_choice
wait_for_version_choice(state) ==
    IF TruthyStr(state.user_choice) THEN [state EXCEPT !.action_required = None]
    ELSE [state EXCEPT
            !.action_required = Some("wait_version_choice"),
            !.response_text =
                <<WarningSign, " In the current version (", state.ableton_edition,
                  ") this will likely not work due to limitations: ",
                  Fmt(state.version_explanation),
                  "\n\nChoose an action:\n1. Try anyway\n2. Formulate a new task">>]

\* retrieve_from_vectorstore
retrieve_from_vectorstore(state, r) ==
    [state EXCEPT !.selected_chunks = retrieve(rag_store, r.qemb, state.ableton_edition, 5).full]

\* generate_full_answer: the steps of a reply with the missing keys filled in;
\* heuristic is TRUE in the branch that guesses requires_click from the text
FillSteps(steps, heuristic) ==
    [i \in 1..Len(steps) |->
        [text |-> steps[i].text,
         requires_click |->
            IF ~IsNone(steps[i].requires_click) THEN Get(steps[i].requires_click)
            ELSE IF heuristic
                 THEN ContainsAny({"click", "press", "select", "choose", "open"}, steps[i].text)
                 ELSE FALSE,
         button_coords |-> None]]

\* generate_full_answer
generate_full_answer(state, r) ==
    IF TruthyText(state.full_answer) /\ state.selected_chunks = <<>>
    THEN \* an answer exists already: only break it into steps
         IF ~client THEN [state EXCEPT !.steps = <<>>]
         ELSE IF ~r.ok THEN [state EXCEPT !.steps = <<>>]
         ELSE [state EXCEPT !.full_answer = state.full_answer,
                            !.steps = FillSteps(r.steps, TRUE)]
    ELSE IF ~client
         THEN [state EXCEPT !.full_answer = <<"OpenAI client not available.">>, !.steps = <<>>]
         ELSE IF ~r.ok
              THEN [state EXCEPT !.full_answer = <<"Error generating answer: ", "error">>,
                                 !.steps = <<>>]
              ELSE [state EXCEPT
                      !.full_answer = IF IsNone(r.explanation) THEN <<"">> ELSE Get(r.explanation),
                      !.steps = FillSteps(r.steps, FALSE)]

\* the gate that asks again after a refusal: the closing message is set, but
\* the session keeps waiting for the step choice
wait_for_user_step_choice_reasks(state) ==
    LET user_choice == OrEmpty(state.user_choice)
    IN  IF user_choice # ""
        THEN IF ContainsAny({"no", "thanks", "thank you"}, user_choice)
             THEN [state EXCEPT !.action_required = Some("wait_step_choice"),
                                !.mode = "simple",
                                !.response_text = <<"Okay, feel free to ask if you need help!">>]
             ELSE [state EXCEPT !.action_required = None]
        ELSE [state EXCEPT
                !.action_required = Some("wait_step_choice"),
                !.mode = "simple",
                !.response_text =
                    IF Len(state.steps) > 0
                    THEN (IF IsNone(state.full_answer) THEN <<"None">> ELSE state.full_answer)
                         \o <<"\n\n", "Would you like me to show this step-by-step? (yes/no)">>
                    ELSE state.full_answer]

\* wait_for_user_step_choice
wait_for_user_step_choice(state) ==
    LET user_choice == OrEmpty(state.user_choice)
    IN  IF user_choice # ""
        THEN IF ContainsAny({"no", "thanks", "thank you"}, user_choice)
             THEN [state EXCEPT !.action_required = None,
                                !.mode = "simple",
                                !.response_text = <<"Okay, feel free to ask if you need help!">>]
             ELSE [state EXCEPT !.action_required = None]
        ELSE [state EXCEPT
                !.action_required = Some("wait_step_choice"),
                !.mode = "simple",
                !.response_text =
                    IF Len(state.steps) > 0
                    THEN (IF IsNone(state.full_answer) THEN <<"None">> ELSE state.full_answer)
                         \o <<"\n\n", "Would you like me to show this step-by-step? (yes/no)">>
                    ELSE state.full_answer]

\* the start that keeps the cursor of the session it is given
step_agent_start_keeps_cursor(state) ==
    IF Len(state.steps) = 0 THEN [state EXCEPT !.response_text = <<"No steps to execute.">>]
    ELSE [state EXCEPT !.mode = "step_by_step",
                       !.response_text = StepHeaderText(0, state.steps)]

\* step_agent_start
step_agent_start(state) ==
    IF Len(state.steps) = 0 THEN [state EXCEPT !.response_text = <<"No steps to execute.">>]
    ELSE [state EXCEPT !.mode = "step_by_step",
                       !.current_step_index = 0,
                       !.response_text = StepHeaderText(0, state.steps)]

\* detect_interaction_type were it to keep only the steps up to the one it
\* classified
detect_interaction_type_truncates(state, r) ==
    LET steps == state.steps
        current_index == state.current_step_index
    IN  IF Len(steps) = 0 \/ current_index >= Len(steps) THEN state
        ELSE [state EXCEPT !.steps = SubSeq(steps, 1, current_index + 1)]

\* detect_interaction_type
detect_interaction_type(state, r) ==
    LET steps == state.steps
        current_index == state.current_step_index
    IN  IF Len(steps) = 0 \/ current_index >= Len(steps) THEN state
        ELSE LET step_text == steps[current_index + 1].text
                 requires_click ==
                    IF ~client
                    THEN ContainsAny({"click", "button", "menu", "select"}, step_text)
                    ELSE IF r.ok
                         THEN (IF IsNone(r.requires_click) THEN FALSE
                               ELSE Get(r.requires_click))
                         ELSE ContainsAny({"click", "button", "menu"}, step_text)
             IN  [state EXCEPT !.steps[current_index + 1].requires_click = requires_click]

\* analyze_screenshot_for_button: the early returns before the screenshot is
\* read, or "call"
LocateGuard(state) ==
    IF Len(state.steps) = 0 \/ state.current_step_index >= Len(state.steps) THEN "no_step"
    ELSE IF ~TruthyStr(state.screenshot_url) \/ ~client THEN "no_screenshot"
    ELSE "call"

\* analyze_screenshot_for_button were the region written only when one is found
analyze_screenshot_keeps_region(state, r) ==
    LET steps == state.steps
        current_index == state.current_step_index
    IN  IF Len(steps) = 0 \/ current_index >= Len(steps) THEN state
        ELSE IF ~TruthyStr(state.screenshot_url) \/ ~client
             THEN [state EXCEPT !.response_text = <<"Screenshot not provided or client unavailable.">>]
        ELSE IF ~r.file_exists
             THEN [state EXCEPT !.response_text = <<"Screenshot file not found.">>]
        ELSE IF /\ r.locate.ok
                /\ r.locate.json = "object"
                /\ IsNone(r.locate.found) \/ Get(r.locate.found)
                /\ ~IsNone(r.locate.x)
                /\ ~IsNone(r.locate.y)
             THEN [state EXCEPT !.steps[current_index + 1].button_coords =
                        Some([x |-> Get(r.locate.x), y |-> Get(r.locate.y),
                              width |-> IF IsNone(r.locate.width) THEN 50 ELSE Get(r.locate.width),
                              height |-> IF IsNone(r.locate.height) THEN 50 ELSE Get(r.locate.height)])]
        ELSE state

\* analyze_screenshot_for_button
analyze_screenshot_for_button(state, r) ==
    LET steps == state.steps
        current_index == state.current_step_index
    IN  IF Len(steps) = 0 \/ current_index >= Len(steps) THEN state
        ELSE IF ~TruthyStr(state.screenshot_url) \/ ~client
             THEN [state EXCEPT !.response_text = <<"Screenshot not provided or client unavailable.">>]
        ELSE IF ~r.file_exists
             THEN [state EXCEPT !.response_text = <<"Screenshot file not found.">>]
        ELSE LET coords ==
                    IF ~r.locate.ok \/ r.locate.json # "object" THEN None
                    ELSE IF (IsNone(r.locate.found) \/ Get(r.locate.found)) /\ ~IsNone(r.locate.x)
                         THEN IF IsNone(r.locate.y) THEN None \* result["y"] raises KeyError
                              ELSE Some([x |-> Get(r.locate.x), y |-> Get(r.locate.y),
                                         width |-> IF IsNone(r.locate.width) THEN 50 ELSE Get(r.locate.width),
                                         height |-> IF IsNone(r.locate.height) THEN 50 ELSE Get(r.locate.height)])
                         ELSE None
             IN  [state EXCEPT !.steps[current_index + 1].button_coords = coords]

\* wait_user_action
wait_user_action(state) ==
    LET steps == state.steps
        current_index == state.current_step_index
    IN  IF Len(steps) > 0 /\ current_index < Len(steps)
        THEN LET button_coords == steps[current_index + 1].button_coords
                 head == StepHeaderText(current_index, steps)
             IN  [state EXCEPT
                    !.action_required = Some("wait_user_action"),
                    !.response_text =
                        IF ~IsNone(button_coords)
                        THEN head \o <<"\n", "\nButton coordinates: x=",
                                       ToString(Get(button_coords).x), ", y=",
                                       ToString(Get(button_coords).y)>>
                        ELSE head]
        ELSE [state EXCEPT !.action_required = Some("wait_user_action"),
                           !.response_text = <<"All steps completed.">>]

\* optional_validate_step: the user chose to skip
ValidateSkips(user_choice) == Contains("skip", OrEmpty(user_choice))

\* the guard of optional_validate_step without the test for "skip"
ValidationGuardNoSkip(state) ==
    LET steps == state.steps
        current_index == state.current_step_index
    IN  IF current_index >= Len(steps) THEN "past_end"
        ELSE IF ~steps[current_index + 1].requires_click THEN "no_click"
        ELSE IF ~TruthyStr(state.screenshot_url) \/ ~client THEN "no_screenshot"
        ELSE "call"

\* optional_validate_step: the return taken before the vision capability is
\* called, or "call" when the function goes on to read the screenshot file
ValidationGuard(state) ==
    LET steps == state.steps
        current_index == state.current_step_index
    IN  IF current_index >= Len(steps) THEN "past_end"
        ELSE IF ValidateSkips(state.user_choice) THEN "skip"
        ELSE IF ~steps[current_index + 1].requires_click THEN "no_click"
        ELSE IF ~TruthyStr(state.screenshot_url) \/ ~client THEN "no_screenshot"
        ELSE "call"

\* optional_validate_step: the place where the function returns, in source order
\* ("invalid" is the only one that changes the state)
ValidationVerdict(state, r) ==
    LET v == r.valid
    IN  IF ValidationGuard(state) # "call" THEN ValidationGuard(state)
        ELSE IF ~r.file_exists THEN "no_file"
        ELSE IF ~v.ok THEN "raised"
        ELSE IF v.json = "none" THEN "no_json"
        ELSE IF v.json = "malformed" THEN "bad_json"
        ELSE IF ~(IsNone(v.valid) \/ Get(v.valid)) THEN "invalid"
        ELSE "valid"

\* optional_validate_step
optional_validate_step(state, r) ==
    IF ValidationVerdict(state, r) = "invalid"
    THEN [state EXCEPT
            !.response_text =
                <<WarningSign, " ",
                  IF IsNone(r.valid.explanation)
                  THEN "Step was not completed correctly."
                  ELSE Get(r.valid.explanation)>>]
    ELSE state

\* next_step_or_finish with the bound one too far: the cursor can reach len(steps)
next_step_past_last(state) ==
    IF Len(state.steps) > 0 /\ state.current_step_index < Len(state.steps)
    THEN [state EXCEPT !.current_step_index = state.current_step_index + 1]
    ELSE [state EXCEPT !.action_required = Some("wait_task_completion_choice")]

\* next_step_or_finish with the bound one too near: the step before the last
\* already finishes
next_step_stops_early(state) ==
    IF Len(state.steps) > 0 /\ state.current_step_index < Len(state.steps) - 2
    THEN [state EXCEPT !.current_step_index = state.current_step_index + 1]
    ELSE [state EXCEPT !.action_required = Some("wait_task_completion_choice")]

\* next_step_or_finish
next_step_or_finish(state) ==
    IF Len(state.steps) > 0 /\ state.current_step_index < Len(state.steps) - 1
    THEN [state EXCEPT !.current_step_index = state.current_step_index + 1]
    ELSE [state EXCEPT !.action_required = Some("wait_task_completion_choice")]

\* final_confirmation
final_confirmation(state) ==
    LET steps == state.steps
        current_index == state.current_step_index
    IN  IF Len(steps) > 0 /\ current_index < Len(steps)
        THEN [state EXCEPT
                !.response_text = CompletionText(current_index + 1, Len(steps),
                                                 steps[current_index + 1].text, CompletionQuestion),
                !.action_required = Some("wait_task_completion_choice")]
        ELSE [state EXCEPT !.response_text = <<CompletionQuestion>>,
                           !.action_required = Some("wait_task_completion_choice")]

\* fallback_review_steps
fallback_review_steps(state, r) ==
    IF ~client THEN [state EXCEPT !.response_text = <<"Failed to analyze steps.">>]
    ELSE IF ~r.ok
         THEN [state EXCEPT !.response_text = <<"Failed to identify problematic steps.">>]
    ELSE LET problematic == r.problematic_steps
         IN  IF problematic # <<>>
             THEN [state EXCEPT
                     !.current_step_index = problematic[1],
                     !.mode = "step_by_step",
                     !.response_text = <<"Let's start from step ", ToString(problematic[1] + 1), ".">>]
             ELSE [state EXCEPT !.response_text = <<"All steps completed correctly.">>]

-----------------------------------------------------------------------------
(* workflow.py: the routing functions and the compiled graph *)

should_continue_after_intent(state) ==
    IF state.intent = Some("ableton_question") THEN "check_version" ELSE "end"

should_continue_after_version_check(state) ==
    IF IsNone(state.allowed) \/ ~Get(state.allowed) THEN "wait_version_choice" ELSE "retrieve"

should_continue_after_version_choice(state) ==
    IF ContainsAny({"new task", "cancel"}, OrEmpty(state.user_choice)) THEN "end" ELSE "retrieve"

should_continue_after_step_choice(state) ==
    IF Contains("yes", OrEmpty(state.user_choice)) THEN "step_agent" ELSE "end"

should_continue_after_interaction_type(state) ==
    IF /\ Len(state.steps) > 0
       /\ state.current_step_index < Len(state.steps)
       /\ state.steps[state.current_step_index + 1].requires_click
    THEN "analyze_screenshot"
    ELSE "wait_action"

should_continue_after_user_action(state) ==
    IF Contains("cancel", OrEmpty(state.user_choice)) THEN "end"
    ELSE IF Contains("skip", OrEmpty(state.user_choice)) THEN "next_step"
    ELSE "validate"

should_continue_after_next_step(state) ==
    IF Len(state.steps) > 0 /\ state.current_step_index < Len(state.steps)
    THEN "detect_interaction"
    ELSE "final_confirmation"

should_continue_after_final_confirmation(state) ==
    IF ContainsAny({"yes", "solved", "done"}, OrEmpty(state.user_choice)) THEN "end" ELSE "fallback"

\* create_workflow: add_node, the function each node runs
RunNode(node, state, r) ==
    CASE node = "detect_intent" -> detect_user_intent(state, r)
      [] node = "check_version" -> check_ableton_version(state, r)
      [] node = "wait_version_choice" -> wait_for_version_choice(state)
      [] node = "retrieve" -> retrieve_from_vectorstore(state, r)
      [] node = "generate_answer" -> generate_full_answer(state, r)
      [] node = "wait_step_choice" -> wait_for_user_step_choice(state)
      [] node = "step_agent" -> step_agent_start(state)
      [] node = "detect_interaction" -> detect_interaction_type(state, r)
      [] node = "analyze_screenshot" -> analyze_screenshot_for_button(state, r)
      [] node = "wait_action" -> wait_user_action(state)
      [] node = "validate" -> optional_validate_step(state, r)
      [] node = "next_step" -> next_step_or_finish(state)
      [] node = "final_confirmation" -> final_confirmation(state)
      [] node = "fallback" -> fallback_review_steps(state, r)

\* create_workflow: add_edge and add_conditional_edges, the node that follows
NextNode(node, state) ==
    CASE node = "detect_intent" -> should_continue_after_intent(state)
      [] node = "check_version" -> should_continue_after_version_check(state)
      [] node = "wait_version_choice" -> should_continue_after_version_choice(state)
      [] node = "retrieve" -> "generate_answer"
      [] node = "generate_answer" -> "wait_step_choice"
      [] node = "wait_step_choice" -> should_continue_after_step_choice(state)
      [] node = "step_agent" -> "detect_interaction"
      [] node = "detect_interaction" -> should_continue_after_interaction_type(state)
      [] node = "analyze_screenshot" -> "wait_action"
      [] node = "wait_action" -> should_continue_after_user_action(state)
      [] node = "validate" -> "next_step"
      [] node = "next_step" -> should_continue_after_next_step(state)
      [] node = "final_confirmation" -> should_continue_after_final_confirmation(state)
      [] node = "fallback" -> "step_agent"

\* create_workflow: set_entry_point
EntryPoint == "detect_intent"

\* chat: max_iterations
max_iterations == 20

\* chat: the loop's stop test after a node's state was taken as the result
StopsAt(result, iteration) ==
    TruthyStr(result.action_required) \/ iteration >= max_iterations

\* the replies the capabilities a node calls can give, in environment env
NodeReplies(node, env) ==
    CASE node = "detect_intent" -> env.intent
      [] node = "check_version" -> VersionCheckReplies(env.version)
      [] node = "retrieve" -> RetrieveReplies
      [] node = "generate_answer" -> env.gen
      [] node = "detect_interaction" -> env.click
      [] node = "analyze_screenshot" -> LocateCallReplies(env.locate)
      [] node = "validate" -> ValidateCallReplies(env.valid)
      [] node = "fallback" -> FallbackReplies
      [] OTHER -> {NoReply}

\* chat: `for step in workflow.stream(initial_state)`, from `node` on: the set of
\* outcomes over the replies of the capabilities.  The graph runs one node per
\* iteration; the loop keeps the node's state as the result (StreamStep) and
\* stops on action_required or at the iteration limit; the stream ends at END.
RECURSIVE RunWorkflow(_, _, _, _, _)
RECURSIVE StreamStep(_, _, _, _, _)
RunWorkflow(node, state, iteration, trace, env) ==
    UNION {StreamStep(node, RunNode(node, state, r), iteration + 1, Append(trace, node), env)
           : r \in NodeReplies(node, env)}

StreamStep(node, result, iteration, trace, env) ==
    IF StopsAt(result, iteration) \/ NextNode(node, result) = "end"
    THEN {[result |-> result, trace |-> trace]}
    ELSE RunWorkflow(NextNode(node, result), result, iteration, trace, env)

-----------------------------------------------------------------------------
(* main.py: the handlers *)

\* chat, chat_step_by_step: the session dict of a new session
NewSession(session_id, message, edition, history, screenshot_url) ==
    [session_id |-> session_id,
     user_query |-> message,
     ableton_edition |-> edition,
     conversation_history |-> history,
     screenshot_url |-> screenshot_url,
     intent |-> None,
     allowed |-> None,
     version_explanation |-> None,
     selected_chunks |-> <<>>,
     full_answer |-> None,
     steps |-> <<>>,
     current_step_index |-> 0,
     mode |-> "simple",
     user_choice |-> None,
     action_required |-> None,
     response_text |-> None]

\* turn.locate: what the vision capability returned when the request asked for
\* the button ("not_called" when it was not asked), and whether the current step
\* already had a region
NotLocated == [kind |-> "not_called", had_coords |-> FALSE]

\* the value of `turn` before any request
NoTurn ==
    [endpoint |-> "none", branch |-> "none", message |-> "",
     before_action |-> None, before_index |-> 0,
     trace |-> <<>>, validation |-> "not_called", scenario |-> 0,
     supplied |-> None, evaluations |-> 0, evaluated |-> FALSE,
     request_id |-> "", locate |-> NotLocated]

\* the request and the session it met, as `turn` keeps them
TurnOf(endpoint, branch, message, before, trace, validation, scenario) ==
    [endpoint |-> endpoint, branch |-> branch, message |-> message,
     before_action |-> IF IsNone(before) THEN None ELSE Get(before).action_required,
     before_index |-> IF IsNone(before) THEN 0 ELSE Get(before).current_step_index,
     trace |-> trace, validation |-> validation, scenario |-> scenario,
     supplied |-> None, evaluations |-> 0, evaluated |-> FALSE,
     request_id |-> "", locate |-> NotLocated]

\* turn.evaluations counts the compatibility evaluations made on the session so
\* far, turn.evaluated says that this request made one
Counted(t, evaluated) ==
    [t EXCEPT !.evaluated = evaluated,
              !.evaluations =
                IF evaluated /\ turn.evaluations < MaxEvaluations
                THEN turn.evaluations + 1 ELSE turn.evaluations]

\* a workflow run made a compatibility evaluation: check_version ran, on a state
\* whose guard let it evaluate (detect_intent, the only node before it, writes
\* intent only)
Evaluated(session, trace) ==
    /\ \E i \in DOMAIN trace : trace[i] = "check_version"
    /\ VersionCheckGuard(session) = "evaluate"

\* turn.scenario follows one script of requests on a session: a new query whose
\* answer has three steps and ends at the step-choice prompt (1), the chat
\* message "yes" (2), the step action "next" three times (3, 4, 5), the step
\* action "yes" (6).  Any other request leaves the script (0).
ScenarioStart(result) ==
    IF Len(result.steps) = 3 /\ result.action_required = Some("wait_step_choice")
    THEN 1 ELSE 0

ScenarioChat(message) == IF turn.scenario = 1 /\ message = "yes" THEN 2 ELSE 0

ScenarioStep(user_action) ==
    IF turn.scenario \in {2, 3, 4} /\ user_action = "next" THEN turn.scenario + 1
    ELSE IF turn.scenario = 5 /\ user_action = "yes" THEN 6
    ELSE 0

\* chat: the ChatResponse were it built from response_text alone, without the
\* `or full_answer or "No response generated."` defaults
ChatResponseBare(session_id, result) ==
    [kind |-> "ChatResponse", status |-> 200,
     response |-> result.response_text,
     session_id |-> session_id,
     mode |-> result.mode,
     steps |-> IF result.mode = "step_by_step" /\ Len(result.steps) > 0
               THEN Some(result.steps) ELSE None,
     action_required |-> result.action_required]

\* chat: the ChatResponse built from the workflow's result
ChatResponseOf(session_id, result) ==
    LET response_text ==
            IF TruthyText(result.response_text) THEN result.response_text
            ELSE IF TruthyText(result.full_answer) THEN result.full_answer
            ELSE <<"No response generated.">>
    IN  [kind |-> "ChatResponse", status |-> 200,
         response |-> response_text,
         session_id |-> session_id,
         mode |-> result.mode,
         steps |-> IF result.mode = "step_by_step" /\ Len(result.steps) > 0
                   THEN Some(result.steps) ELSE None,
         action_required |-> result.action_required]

\* chat: the message is the reply to a choice the session waits for
IsChoiceReply(action_required) ==
    action_required = Some("wait_step_choice") \/ action_required = Some("wait_version_choice")

\* chat: the session dict an existing session becomes before the workflow runs
ChatUpdate(session, message, edition, history, screenshot_url) ==
    LET s == IF IsChoiceReply(session.action_required)
             THEN [session EXCEPT !.user_choice = Some(message)]
             ELSE [session EXCEPT !.user_query = message]
    IN  [s EXCEPT !.conversation_history = history,
                  !.screenshot_url = screenshot_url,
                  !.ableton_edition = edition]

\* chat: the request is the special "show_button" message
IsShowButton(message, screenshot_url) ==
    Lower(Chars(message)) = Chars("show_button") /\ TruthyStr(screenshot_url)

\* chat: the show_button branch, the state it passes to analyze_screenshot_for_button
ShowButtonState(session, edition, history, screenshot_url) ==
    [session EXCEPT
        !.ableton_edition = edition,
        !.conversation_history = history,
        !.screenshot_url = screenshot_url,
        !.user_choice = None,
        !.action_required = Some("wait_user_action"),
        !.response_text = None]

\* chat: the show_button branch, from the node's result to the response
ShowButtonResult(result) ==
    LET steps == result.steps
        current_index == result.current_step_index
        found == /\ Len(steps) > 0
                 /\ current_index < Len(steps)
                 /\ ~IsNone(steps[current_index + 1].button_coords)
        coords == Get(steps[current_index + 1].button_coords)
    IN  [session |-> result,
         response |->
            [kind |-> "ChatResponse", status |-> 200,
             response |-> IF found
                          THEN <<"Button found at coordinates: x=", ToString(coords.x),
                                 ", y=", ToString(coords.y)>>
                          ELSE <<"Button found! See the highlight on screen.">>,
             session_id |-> result.session_id,
             mode |-> "step_by_step",
             steps |-> Some(steps),
             action_required |-> Some("wait_user_action")]]

\* chat: the show_button branch
ShowButton(session, edition, history, screenshot_url, r) ==
    ShowButtonResult(analyze_screenshot_for_button(
        ShowButtonState(session, edition, history, screenshot_url), r))

\* step: the keyword tests on the user's action
IsCancel(user_action) == Contains("cancel", user_action)
\* the skip test that never recognises the action
IsSkipIgnored(user_action) == FALSE
IsSkip(user_action) == Contains("skip", user_action)
yes_keywords == {"yes", "solved", "done", "completed", "finished", "managed", "succeeded"}
no_keywords == {"no", "failed", "didn't", "couldn't", "unable", "not solved"}
\* the success test that takes the whole reply for the keyword
is_yes_exact(user_action) == user_action \in yes_keywords
is_yes(user_action) == ContainsAny(yes_keywords, user_action)
\* the failure test that takes every reply for a failure
is_no_any(user_action) == TRUE
is_no(user_action) == ContainsAny(no_keywords, user_action)

CompletionMsg == "Great! Task completed. If you need help with anything else, just ask!"

StepResponse(step_text, step_index, total_steps, requires_click, button_coords, action_required) ==
    [kind |-> "StepResponse", status |-> 200,
     step_text |-> step_text, step_index |-> step_index, total_steps |-> total_steps,
     requires_click |-> requires_click, button_coords |-> button_coords,
     action_required |-> action_required]

HTTPException(status_code, detail) ==
    [kind |-> "HTTPException", status |-> status_code, detail |-> detail]

\* step: StepResponse(requires_click=None) fails the model's validation (the
\* field is declared bool); the handler's except clause turns the error into the
\* status 500.  The session was updated before the response was built.  The step
\* record keeps the None as FALSE: every reader of the stored field takes its
\* truthiness.
StepRejected(after) ==
    [session |-> after,
     response |-> HTTPException(500, "Error processing step"),
     trace |-> <<"detect_interaction">>]

\* step: the reply that restarts the walk, once detect_interaction_type has run
StepRestarted(after, steps, n) ==
    [session |-> after,
     response |-> StepResponse(StepHeaderText(0, steps), 0, n,
                               after.steps[1].requires_click,
                               after.steps[1].button_coords,
                               Some("wait_user_action")),
     trace |-> <<"detect_interaction">>]

\* step: the branch taken once next_step_or_finish marked the task for completion
StepCompletion(result, user_action, click) ==
    LET steps == result.steps
        n == Len(steps)
    IN  IF is_yes(user_action)
        THEN [session |-> [result EXCEPT !.action_required = None, !.mode = "simple"],
              response |-> StepResponse(<<CompletionMsg>>, n - 1, n, FALSE, None, None),
              trace |-> <<>>]
        ELSE IF is_no(user_action)
        THEN IF IsNullClick(click)
             THEN StepRejected(
                    detect_interaction_type(
                        [result EXCEPT !.current_step_index = 0,
                                       !.action_required = Some("wait_user_action")], click))
             ELSE StepRestarted(
                    detect_interaction_type(
                        [result EXCEPT !.current_step_index = 0,
                                       !.action_required = Some("wait_user_action")], click),
                    steps, n)
        ELSE [session |-> result,
              response |-> StepResponse(CompletionText(n, n, steps[n].text, CompletionQuestion),
                                        n - 1, n, FALSE, None,
                                        Some("wait_task_completion_choice")),
              trace |-> <<>>]

\* step: the reply that asks for the final confirmation, once final_confirmation has run
StepLast(last, new_index, n) ==
    [session |-> last,
     response |-> StepResponse(last.response_text, new_index, n, FALSE, None,
                               Some("wait_task_completion_choice")),
     trace |-> <<"final_confirmation">>]

\* step: the reply that presents the next step, once detect_interaction_type has run
StepNext(after, steps, new_index, n) ==
    [session |-> after,
     response |-> StepResponse(StepHeaderText(new_index, steps), new_index, n,
                               after.steps[new_index + 1].requires_click,
                               after.steps[new_index + 1].button_coords,
                               Some("wait_user_action")),
     trace |-> <<"detect_interaction">>]

\* step: the branch that delivers the step the cursor moved to
StepDelivery(result0, current_index, click) ==
    LET steps == result0.steps
        n == Len(steps)
        forced == result0.current_step_index = current_index /\ current_index < n - 1
        new_index == IF forced THEN current_index + 1 ELSE result0.current_step_index
        result == [result0 EXCEPT !.current_step_index = new_index]
    IN  IF new_index = n - 1
        THEN StepLast(final_confirmation(result), new_index, n)
        ELSE IF new_index < n /\ new_index >= 0
        THEN IF IsNullClick(click)
             THEN StepRejected(detect_interaction_type(result, click))
             ELSE StepNext(detect_interaction_type(result, click), steps, new_index, n)
        ELSE [session |-> [result EXCEPT !.action_required = None, !.mode = "simple"],
              response |-> StepResponse(<<"All steps completed.">>, n - 1, n, FALSE, None, None),
              trace |-> <<>>]

\* step: the session dict once the request's fields are stored in it
StepStored(session0, user_action, screenshot_url) ==
    [session0 EXCEPT
        !.user_choice = Some(user_action),
        !.screenshot_url = IF TruthyStr(screenshot_url) THEN screenshot_url ELSE @]

\* step: the state dict the handler passes to the node functions
StepState(session) == [session EXCEPT !.mode = "step_by_step", !.response_text = None]

\* step: what the handler returns, with the nodes it called and the place
\* where optional_validate_step returned
StepOutcome(rest, called, validation) ==
    [session |-> rest.session, response |-> rest.response,
     trace |-> called \o rest.trace, validation |-> validation]

\* step: from the state next_step_or_finish returned to the response
StepRespond(result, user_action, current_index, click) ==
    IF result.action_required = Some("wait_task_completion_choice")
    THEN StepCompletion(result, user_action, click)
    ELSE StepDelivery(result, current_index, click)

\* the node calls with a validation that blocks: when the vision reply says the
\* step was not done, the handler returns the warning and does not advance
StepAdvanceBlocking(state, user_action, current_index, valid, click) ==
    IF IsSkip(user_action)
    THEN StepOutcome(StepRespond(next_step_or_finish(state), user_action, current_index, click),
                     <<"next_step">>, "not_called")
    ELSE IF ValidationVerdict(state, valid) = "invalid"
    THEN [session |-> optional_validate_step(state, valid),
          response |-> StepResponse(optional_validate_step(state, valid).response_text,
                                    current_index, Len(state.steps), TRUE, None,
                                    Some("wait_user_action")),
          trace |-> <<"validate">>, validation |-> "invalid"]
    ELSE StepOutcome(StepRespond(next_step_or_finish(optional_validate_step(state, valid)),
                                 user_action, current_index, click),
                     <<"validate", "next_step">>, ValidationVerdict(state, valid))

\* step: the node calls, by the user's action
StepAdvance(state, user_action, current_index, valid, click) ==
    IF IsSkip(user_action)
    THEN StepOutcome(StepRespond(next_step_or_finish(state), user_action, current_index, click),
                     <<"next_step">>, "not_called")
    ELSE StepOutcome(StepRespond(next_step_or_finish(optional_validate_step(state, valid)),
                                 user_action, current_index, click),
                     <<"validate", "next_step">>, ValidationVerdict(state, valid))

\* step: the checks on the stored session that end the request early
StepChecked(session, user_action, valid, click) ==
    LET steps == session.steps
        current_index == session.current_step_index
    IN  IF current_index >= Len(steps)
        THEN [session |-> session, response |-> HTTPException(400, "No more steps"),
              trace |-> <<>>, validation |-> "not_called"]
        ELSE IF IsCancel(user_action)
        THEN [session |-> session,
              response |-> StepResponse(<<"Task cancelled.">>, current_index, Len(steps),
                                        FALSE, None, None),
              trace |-> <<>>, validation |-> "not_called"]
        ELSE StepAdvance(StepState(session), user_action, current_index, valid, click)

\* step: the handler for a session of the table
StepHandler(session0, user_action, screenshot_url, valid, click) ==
    StepChecked(StepStored(session0, user_action, screenshot_url), user_action, valid, click)

\* chat_step_by_step: the session dict before the nodes run
StepByStepSeed(session_id, existing, message, rag_answer, edition, history, screenshot_url) ==
    IF IsNone(existing)
    THEN [NewSession(session_id, message, edition, history, screenshot_url) EXCEPT
            !.intent = Some("ableton_question"),
            !.allowed = Some(TRUE),
            !.full_answer = rag_answer]
    ELSE [Get(existing) EXCEPT
            !.user_query = message,
            !.full_answer = rag_answer,
            !.conversation_history = history,
            !.screenshot_url = screenshot_url,
            !.ableton_edition = edition,
            !.intent = Some("ableton_question"),
            !.allowed = Some(TRUE)]

\* chat_step_by_step: the state generate_full_answer is given
StepByStepState(seed) ==
    [seed EXCEPT
        !.intent = Some("ableton_question"),
        !.allowed = Some(TRUE),
        !.version_explanation = None,
        !.selected_chunks = <<>>,
        !.response_text = None]

\* chat_step_by_step: the response once the first step is prepared
StepByStepStarted(result) ==
    [session |-> result,
     response |->
        [kind |-> "ChatResponse", status |-> 200,
         response |-> IF TruthyText(result.response_text) THEN result.response_text
                      ELSE StepHeaderText(0, result.steps),
         session_id |-> result.session_id,
         mode |-> result.mode,
         steps |-> IF result.mode = "step_by_step" /\ Len(result.steps) > 0
                   THEN Some(result.steps) ELSE None,
         action_required |-> result.action_required],
     trace |-> <<"generate_answer", "step_agent", "detect_interaction", "wait_action">>]

\* chat_step_by_step: from the state generate_full_answer returned to the response
StepByStepGenerated(seed, generated, click) ==
    IF Len(generated.steps) = 0
    THEN [session |-> seed,
          response |->
             [kind |-> "ChatResponse", status |-> 200,
              response |-> <<"Failed to extract steps from answer. Answer length: ",
                             "len(full_answer)", " characters. Please try again.">>,
              session_id |-> seed.session_id, mode |-> "simple",
              steps |-> None, action_required |-> None],
          trace |-> <<"generate_answer">>]
    ELSE StepByStepStarted(
            wait_user_action(detect_interaction_type(step_agent_start(generated), click)))

\* chat_step_by_step: from the seeded session to the response
StepByStepHandler(seed, gen, click) ==
    StepByStepGenerated(seed, generate_full_answer(StepByStepState(seed), gen), click)

\* step, validate_step, get_session_status: the identifier is not in the table
SessionNotFound == HTTPException(404, "Session not found")

\* turn.request_id is the identifier a /step, /step/validate or status request named
Requested(t, session_id) == [t EXCEPT !.request_id = session_id]

\* validate_step: the state optional_validate_step is given
ValidateState(session, step_index, screenshot_url) ==
    [session EXCEPT
        !.screenshot_url = screenshot_url,
        !.current_step_index = step_index,
        !.mode = "step_by_step",
        !.user_choice = None,
        !.action_required = None,
        !.response_text = None]

\* validate_step: the response built from the node's response_text
ValidateStepResponse(result) ==
    LET response_text == result.response_text
        valid == IF TruthyText(response_text) THEN response_text[1] # WarningSign ELSE TRUE
    IN  [kind |-> "ValidateStepResponse", status |-> 200,
         valid |-> valid,
         explanation |-> IF valid THEN None ELSE response_text]

\* validate_step, for a session of the table
ValidateHandler(session, step_index, screenshot_url, valid) ==
    IF step_index >= Len(session.steps)
    THEN HTTPException(400, "Invalid step index")
    ELSE ValidateStepResponse(
            optional_validate_step(ValidateState(session, step_index, screenshot_url), valid))

\* get_session_status, for a session of the table
SessionStatusResponse(session) ==
    LET mode == session.mode
        current_step == session.current_step_index
        steps == session.steps
        walking == mode = "step_by_step"
    IN  [kind |-> "SessionStatusResponse", status |-> 200,
         mode |-> mode,
         current_step |-> IF walking THEN Some(current_step) ELSE None,
         total_steps |-> IF walking /\ Len(steps) > 0 THEN Some(Len(steps)) ELSE None,
         current_step_info |->
            IF walking /\ Len(steps) > 0 /\ current_step < Len(steps)
            THEN Some(steps[current_step + 1]) ELSE None]

\* the current step of a session holds a region
HasRegion(session) ==
    /\ session.current_step_index < Len(session.steps)
    /\ ~IsNone(session.steps[session.current_step_index + 1].button_coords)

\* turn.locate of a show_button request
Located(before, state, r) ==
    [kind |-> IF LocateGuard(state) # "call" \/ ~r.file_exists THEN "not_called"
              ELSE IF ~r.locate.ok THEN "raised"
              ELSE r.locate.json,
     had_coords |-> HasRegion(before)]
-----------------------------------------------------------------------------
(* The state machine: one action per handler branch *)

InTable(session_id) == session_id \in DOMAIN sessions /\ sessions[session_id] # None

\* a connection that carries no request
IdleConnection == [stage |-> "idle", endpoint |-> "", session_id |-> "", segment |-> 0]

\* a handler with one await in its body (the call of the workflow awaited)
AwaitPointsAwaited(endpoint) == 1

\* the await expressions in the body of a handler: chat, step and
\* chat_step_by_step are coroutines that call the graph, the nodes and the
\* OpenAI client synchronously
AwaitPoints(endpoint) == 0

\* the requests whose handler has started and has not returned
InFlight(session_id) ==
    {c \in DOMAIN loop : /\ loop[c].stage \in {"running", "suspended"}
                         /\ loop[c].session_id = session_id}

\* the handler of `endpoint` returns: when connections are modelled, the running
\* coroutine is that handler past its last await, and its connection is freed
Return(endpoint, session_id) ==
    IF DOMAIN loop = {} THEN UNCHANGED loop
    ELSE \E c \in DOMAIN loop :
            /\ loop[c].stage = "running"
            /\ loop[c].endpoint = endpoint
            /\ loop[c].session_id = session_id
            /\ loop[c].segment = AwaitPoints(endpoint)
            /\ loop' = [loop EXCEPT ![c] = IdleConnection]

\* the server after startup: no session; a client when the API key is set;
\* the store as load_data left it
Init(env) ==
    /\ sessions = [id \in SessionIds |-> None]
    /\ client \in env.clients
    /\ rag_store \in env.stores
    /\ response = [kind |-> "none", status |-> 0]
    /\ turn = NoTurn
    /\ loop = [c \in env.connections |-> IdleConnection]

\* POST /chat for an identifier that is not in the table (given, or a fresh uuid4)
ChatNew(env) ==
    \E session_id \in SessionIds, message \in env.new_messages, edition \in Editions,
       history \in Histories, screenshot_url \in Screenshots :
        /\ ~InTable(session_id)
        /\ LET session == NewSession(session_id, message, edition, history, screenshot_url)
           IN  \E run \in RunWorkflow(EntryPoint, session, 0, <<>>, env) :
                /\ sessions' = [sessions EXCEPT ![session_id] = Some(run.result)]
                /\ response' = ChatResponseOf(session_id, run.result)
                /\ turn' = Counted(TurnOf("chat", "new", message, None, run.trace,
                                           "not_called", ScenarioStart(run.result)),
                                    Evaluated(session, run.trace))
        /\ Return("chat", session_id)
        /\ UNCHANGED <<client, rag_store>>

\* POST /chat for a session of the table, any message but show_button with a screenshot
ChatExisting(env) ==
    \E session_id \in SessionIds, message \in env.chat_messages, edition \in Editions,
       history \in Histories, screenshot_url \in Screenshots :
        /\ InTable(session_id)
        /\ ~IsShowButton(message, screenshot_url)
        /\ LET before == Get(sessions[session_id])
               session == ChatUpdate(before, message, edition, history, screenshot_url)
           IN  \E run \in RunWorkflow(EntryPoint, session, 0, <<>>, env) :
                /\ sessions' = [sessions EXCEPT ![session_id] = Some(run.result)]
                /\ response' = ChatResponseOf(session_id, run.result)
                /\ turn' = Counted(TurnOf("chat", "existing", message, Some(before),
                                           run.trace, "not_called", ScenarioChat(message)),
                                    Evaluated(session, run.trace))
        /\ Return("chat", session_id)
        /\ UNCHANGED <<client, rag_store>>

\* POST /chat with the message show_button and a screenshot, for a session of the table
ChatShowButton(env) ==
    \E session_id \in SessionIds, message \in env.chat_messages, edition \in Editions,
       history \in Histories, screenshot_url \in Screenshots,
       r \in LocateCallReplies(env.locate) :
        /\ InTable(session_id)
        /\ IsShowButton(message, screenshot_url)
        /\ LET before == Get(sessions[session_id])
           IN  \E out \in {ShowButton(before, edition, history, screenshot_url, r)} :
                /\ sessions' = [sessions EXCEPT ![session_id] = Some(out.session)]
                /\ response' = out.response
                /\ turn' = [Counted(TurnOf("chat", "show_button", message, Some(before),
                                            <<"analyze_screenshot">>, "not_called", 0), FALSE)
                             EXCEPT !.locate =
                                Located(before,
                                        ShowButtonState(before, edition, history, screenshot_url),
                                        r)]
        /\ Return("chat", session_id)
        /\ UNCHANGED <<client, rag_store>>

\* what /step is given when it calls no capability
NoValidation == [file_exists |-> FALSE, valid |-> NoReply]

\* POST /step for an identifier that is not in the table, were the handler to
\* open a session for it as /chat does
StepUnknownCreates(env) ==
    \E session_id \in SessionIds, user_action \in env.step_actions :
        /\ ~InTable(session_id)
        /\ sessions' = [sessions EXCEPT
                            ![session_id] = Some(NewSession(session_id, user_action, "suite",
                                                            <<>>, None))]
        /\ response' = SessionNotFound
        /\ turn' = Requested(Counted(TurnOf("step", "unknown", user_action, None, <<>>,
                                              "not_called", 0), FALSE), session_id)
        /\ Return("step", session_id)
        /\ UNCHANGED <<client, rag_store>>

\* POST /step for an identifier that is not in the table
StepUnknown(env) ==
    \E session_id \in env.request_ids, user_action \in env.step_actions :
        /\ ~InTable(session_id)
        /\ response' = SessionNotFound
        /\ turn' = Requested(Counted(TurnOf("step", "unknown", user_action, None, <<>>,
                                              "not_called", 0), FALSE), session_id)
        /\ Return("step", session_id)
        /\ UNCHANGED <<sessions, client, rag_store>>

\* POST /step for a session of the table.  The replies are drawn for the calls
\* the handler makes: the validation reply when optional_validate_step reaches
\* its call, the classifier reply when a client exists.
Step(env) ==
    \E session_id \in SessionIds, user_action \in env.step_actions,
       screenshot_url \in Screenshots :
        /\ InTable(session_id)
        /\ LET before == Get(sessions[session_id])
               state == StepState(StepStored(before, user_action, screenshot_url))
           IN  \E valid \in (IF ValidationGuard(state) = "call"
                              THEN ValidateCallReplies(env.valid)
                              ELSE {[file_exists |-> FALSE, valid |-> NoReply]}),
                  click \in (IF client THEN env.click ELSE {NoReply}) :
                \E out \in {StepHandler(before, user_action, screenshot_url, valid, click)} :
                    /\ sessions' = [sessions EXCEPT ![session_id] = Some(out.session)]
                    /\ response' = out.response
                    /\ turn' = Requested(Counted(TurnOf("step", "existing", user_action,
                                                         Some(before), out.trace,
                                                         out.validation,
                                                         ScenarioStep(user_action)), FALSE),
                                          session_id)
        /\ Return("step", session_id)
        /\ UNCHANGED <<client, rag_store>>

\* POST /chat/step-by-step, for a new identifier or a session of the table
ChatStepByStep(env) ==
    \E session_id \in SessionIds, message \in env.new_messages, rag_answer \in env.rag_answers,
       edition \in Editions, history \in Histories, screenshot_url \in Screenshots,
       gen \in (IF client THEN env.gen ELSE {NoReply}),
       click \in (IF client THEN env.click ELSE {NoReply}) :
        LET existing == sessions[session_id]
            seed == StepByStepSeed(session_id, existing, message, rag_answer, edition,
                                   history, screenshot_url)
        IN  \E out \in {StepByStepHandler(seed, gen, click)} :
                /\ sessions' = [sessions EXCEPT ![session_id] = Some(out.session)]
                /\ response' = out.response
                /\ turn' = [Counted(TurnOf("chat_step_by_step",
                                            IF IsNone(existing) THEN "new" ELSE "existing",
                                            message, existing, out.trace, "not_called", 0),
                                     FALSE)
                             EXCEPT !.supplied = rag_answer]
                /\ Return("chat_step_by_step", session_id)
                /\ UNCHANGED <<client, rag_store>>

\* every handler, in environment env
Next(env) ==
    \/ ChatNew(env)
    \/ ChatExisting(env)
    \/ ChatShowButton(env)
    \/ StepUnknown(env)
    \/ Step(env)
    \/ ChatStepByStep(env)

\* POST /step/validate
StepValidate(env) ==
    \E session_id \in env.request_ids, step_index \in StepIndexes,
       screenshot_url \in Screenshots \ {None} :
        /\ IF ~InTable(session_id)
           THEN /\ response' = SessionNotFound
                /\ turn' = Requested(Counted(TurnOf("validate", "unknown", "", None, <<>>,
                                                     "not_called", 0), FALSE), session_id)
           ELSE LET session == Get(sessions[session_id])
                    state == ValidateState(session, step_index, screenshot_url)
                IN  \E valid \in (IF ValidationGuard(state) = "call"
                                   THEN ValidateCallReplies(env.valid)
                                   ELSE {NoValidation}) :
                        /\ response' = ValidateHandler(session, step_index, screenshot_url, valid)
                        /\ turn' = Requested(Counted(TurnOf("validate", "existing", "",
                                                             Some(session), <<>>,
                                                             "not_called", 0), FALSE),
                                              session_id)
        /\ Return("validate", session_id)
        /\ UNCHANGED <<sessions, client, rag_store>>

\* GET /session/{session_id}/status
SessionStatus(env) ==
    \E session_id \in env.request_ids :
        /\ IF ~InTable(session_id)
           THEN /\ response' = SessionNotFound
                /\ turn' = Requested(Counted(TurnOf("status", "unknown", "", None, <<>>,
                                                     "not_called", 0), FALSE), session_id)
           ELSE /\ response' = SessionStatusResponse(Get(sessions[session_id]))
                /\ turn' = Requested(Counted(TurnOf("status", "existing", "",
                                                     Some(Get(sessions[session_id])), <<>>,
                                                     "not_called", 0), FALSE), session_id)
        /\ Return("status", session_id)
        /\ UNCHANGED <<sessions, client, rag_store>>

\* rag_store.retrieve(query_embedding, edition, top_k) is called; the call and
\* what it returned are kept in response
Retrieve(env) ==
    \E query_embedding \in env.queries, edition \in env.editions, top_k \in env.top_ks :
        /\ response' = [kind |-> "retrieve", status |-> 0,
                        query_embedding |-> query_embedding,
                        edition |-> edition,
                        top_k |-> top_k,
                        result |-> retrieve(rag_store, query_embedding, edition, top_k)]
        /\ turn' = [NoTurn EXCEPT !.endpoint = "retrieve"]
        /\ UNCHANGED <<sessions, client, rag_store, loop>>

\* rag_store._cosine_similarity(vec1, vec2) is called; the call and what it
\* returned are kept in response
Similarity(env) ==
    \E vec1 \in env.vectors, vec2 \in env.vectors :
        /\ response' = [kind |-> "cosine", status |-> 0,
                        vec1 |-> vec1, vec2 |-> vec2,
                        result |-> cosine_similarity(vec1, vec2)]
        /\ turn' = [NoTurn EXCEPT !.endpoint = "cosine"]
        /\ UNCHANGED <<sessions, client, rag_store, loop>>

\* calls of the similarity
NextCosine(env) ==
    \/ Similarity(env)

\* calls of the retrieval store
NextRetrieve(env) ==
    \/ Retrieve(env)

\* the app, and the store called directly
NextAbsent(env) ==
    \/ Next(env)
    \/ Retrieve(env)

\* optional_validate_step is called on the state /step builds for a session of
\* the table; the state given and the state returned are kept in response
ValidateNode(env) ==
    \E session_id \in SessionIds, user_action \in env.step_actions,
       screenshot_url \in Screenshots :
        /\ InTable(session_id)
        /\ LET state == StepState(StepStored(Get(sessions[session_id]), user_action,
                                            screenshot_url))
           IN  \E valid \in (IF ValidationGuard(state) = "call"
                              THEN ValidateCallReplies(env.valid)
                              ELSE {NoValidation}) :
                response' = [kind |-> "optional_validate_step", status |-> 0,
                             given |-> state,
                             returned |-> optional_validate_step(state, valid)]
        /\ turn' = [NoTurn EXCEPT !.endpoint = "optional_validate_step"]
        /\ UNCHANGED <<sessions, client, rag_store, loop>>

\* the app, and the validation node called directly
NextValidate(env) ==
    \/ Next(env)
    \/ ValidateNode(env)

\* the transport accepts a request on a free connection; its handler is a task
\* the loop has not started yet
Arrive(env) ==
    \E c \in DOMAIN loop, endpoint \in TurnEndpoints, session_id \in SessionIds :
        /\ loop[c].stage = "idle"
        /\ loop' = [loop EXCEPT ![c] = [stage |-> "pending", endpoint |-> endpoint,
                                        session_id |-> session_id, segment |-> 0]]
        /\ UNCHANGED <<sessions, client, rag_store, response, turn>>

\* one scheduling step of the loop: the running coroutine gives up control at
\* its next await; with no coroutine running, a task that is ready (not started,
\* or suspended at an await) is run
Schedule ==
    /\ IF \E c \in DOMAIN loop : loop[c].stage = "running"
       THEN \E c \in DOMAIN loop :
                /\ loop[c].stage = "running"
                /\ loop[c].segment < AwaitPoints(loop[c].endpoint)
                /\ loop' = [loop EXCEPT ![c].stage = "suspended",
                                        ![c].segment = @ + 1]
       ELSE \E c \in DOMAIN loop :
                /\ loop[c].stage \in {"pending", "suspended"}
                /\ loop' = [loop EXCEPT ![c].stage = "running"]
    /\ UNCHANGED <<sessions, client, rag_store, response, turn>>

\* the app behind uvicorn's loop: requests arrive, the loop schedules the
\* handlers, a handler runs to its return
NextLoop(env) ==
    \/ Arrive(env)
    \/ Schedule
    \/ Next(env)

\* every endpoint that names a session, in environment env
NextAll(env) ==
    \/ Next(env)
    \/ StepValidate(env)
    \/ SessionStatus(env)

-----------------------------------------------------------------------------
(* The compiled graph run from a node on.  The handlers never take the edge   *)
(* that leaves final_confirmation: here the graph of workflow.py is followed  *)
(* node by node from that edge, for a session as the handlers leave it at the *)
(* completion question, with the user's reply stored.                        *)


\* the session once /step "next" has been sent until the completion question
\* is asked (the session has at least one step)
RECURSIVE WalkToLast(_, _)
WalkToLast(session, click) ==
    IF session.action_required = Some("wait_task_completion_choice") THEN session
    ELSE WalkToLast(StepHandler(session, "next", None, NoValidation, click).session, click)

\* the sessions a new /chat query leaves at the step-choice prompt, with steps
AskedSessions(env) ==
    {run.result : run \in
        {w \in UNION {RunWorkflow(EntryPoint, NewSession(id, message, edition, <<>>, shot),
                                  0, <<>>, env) :
                        id \in SessionIds, message \in env.new_messages,
                        edition \in Editions, shot \in Screenshots} :
            /\ w.result.action_required = Some("wait_step_choice")
            /\ Len(w.result.steps) > 0}}

\* the sessions at the completion question, with the user's reply stored
AnsweredSessions(env) ==
    {StepStored(WalkToLast(asked, click), reply, None) :
        asked \in AskedSessions(env),
        click \in (IF client THEN env.click ELSE {NoReply}),
        reply \in env.step_actions}

\* the node the graph runs next: the edge that leaves final_confirmation for
\* the first, the edge that leaves the node run last afterwards
GraphNextNode ==
    IF turn.trace = <<>>
    THEN should_continue_after_final_confirmation(Get(sessions[turn.branch]))
    ELSE NextNode(turn.trace[Len(turn.trace)], Get(sessions[turn.branch]))

\* a session at the completion question, its reply stored, the graph about to
\* take the edge that leaves final_confirmation
InitGraph(env) ==
    /\ client \in env.clients
    /\ rag_store \in env.stores
    /\ response = [kind |-> "none", status |-> 0]
    /\ \E answered \in AnsweredSessions(env) :
        /\ sessions = [id \in SessionIds |->
                          IF id = answered.session_id THEN Some(answered) ELSE None]
        /\ turn = TurnOf("graph", answered.session_id, Get(answered.user_choice),
                         Some(answered), <<>>, "not_called", 0)
    /\ loop = [c \in env.connections |-> IdleConnection]

\* the graph runs one node; the run is followed up to the node that asks for
\* the user's action
GraphNode(env) ==
    /\ turn.endpoint = "graph"
    /\ GraphNextNode # "end"
    /\ turn.trace # <<>> => turn.trace[Len(turn.trace)] # "wait_action"
    /\ \E r \in NodeReplies(GraphNextNode, env) :
        /\ sessions' = [sessions EXCEPT
                          ![turn.branch] = Some(RunNode(GraphNextNode, Get(@), r))]
        /\ turn' = [turn EXCEPT !.trace = Append(@, GraphNextNode)]
    /\ UNCHANGED <<client, rag_store, response, loop>>

-----------------------------------------------------------------------------
(* The claims *)

\* the session of the scenarios, when it is in the table
TheSession == Get(sessions["s1"])
HasSession == InTable("s1")

\* C1: after every request, every session's cursor satisfies
\* 0 <= current_step_index <= len(steps), also when a new answer replaced the
\* step list.
C1_CursorWithinSteps ==
    \A id \in SessionIds :
        InTable(id) =>
            /\ 0 <= Get(sessions[id]).current_step_index
            /\ Get(sessions[id]).current_step_index <= Len(Get(sessions[id]).steps)

\* the last request was a /chat message for a session of the table (not show_button)
ChatReplyTurn == turn.endpoint = "chat" /\ turn.branch = "existing"

\* the last request was a /step action the handler accepted: the session was in
\* the table and its cursor was on a step
StepTurn ==
    /\ turn.endpoint = "step"
    /\ turn.branch = "existing"
    /\ response.kind = "StepResponse"

\* the last message or action contains the word, in any case
SaysSkip == Contains("skip", turn.message)
SaysCancel == Contains("cancel", turn.message)

InTrace(node) == \E i \in DOMAIN turn.trace : turn.trace[i] = node

\* the node of the graph that sets an awaiting-input stage and whose conditional
\* edge routes the reply
StageNode(action_required) ==
    CASE action_required = Some("wait_version_choice") -> "wait_version_choice"
      [] action_required = Some("wait_step_choice") -> "wait_step_choice"
      [] action_required = Some("wait_user_action") -> "wait_action"
      [] OTHER -> "final_confirmation"

\* C2: a /chat turn that carries the reply to a session paused at an
\* awaiting-input stage S resumes at S: the turn does not stop before S's
\* routing decision has been applied, so S is among the nodes the turn ran.
C2_ReplyResumesAtStage ==
    (ChatReplyTurn /\ turn.before_action # None) => InTrace(StageNode(turn.before_action))

C4_TryAnywayProceeds ==
    (/\ ChatReplyTurn
     /\ turn.before_action = Some("wait_version_choice")
     /\ Contains("try anyway", turn.message))
    => /\ InTrace("retrieve")
       /\ InTrace("generate_answer")
       /\ response.response[1] # WarningSign

\* a /step turn that ran next_step_or_finish on a session whose cursor was on
\* step i = turn.before_index and that was not at final confirmation
Advancing ==
    /\ StepTurn
    /\ InTrace("next_step")
    /\ turn.before_action # Some("wait_task_completion_choice")

C6_NegativeReplyRestarts ==
    (/\ StepTurn
     /\ turn.before_action = Some("wait_task_completion_choice")
     /\ ContainsAny({"no", "failed", "didn't", "couldn't", "unable", "not solved"},
                    turn.message))
    => /\ TheSession.current_step_index = 0
       /\ TheSession.mode = "step_by_step"
       /\ TheSession.action_required = Some("wait_user_action")
       /\ response.step_text = StepHeaderText(0, TheSession.steps)
       /\ response.step_text # <<CompletionMsg>>

\* a /step turn with the action "skip" on a session whose cursor was on a step
\* (a turn that was not cancelled: "cancel" is tested first)
SkipTurn == StepTurn /\ SaysSkip /\ ~SaysCancel

\* C7: a "skip" action at step i does not invoke step validation; it moves the
\* cursor to i + 1 when i is not the last step, and the session to final
\* confirmation when i is the last step.
C7_SkipAdvancesUnvalidated ==
    SkipTurn =>
        /\ ~InTrace("validate")
        /\ turn.validation = "not_called"
        /\ (turn.before_index < Len(TheSession.steps) - 1
            => TheSession.current_step_index = turn.before_index + 1)
        /\ (turn.before_index = Len(TheSession.steps) - 1
            => /\ TheSession.action_required = Some("wait_task_completion_choice")
               /\ TheSession.current_step_index = turn.before_index)

\* C7 witness: "skip" on the first of three steps, a step that requires a click,
\* with a screenshot in the session: the step a "next" would have validated
C7_SkippedClickStep ==
    /\ SkipTurn
    /\ turn.before_index = 0
    /\ Len(TheSession.steps) = 3
    /\ TheSession.current_step_index = 1
    /\ TheSession.steps[1].requires_click
    /\ TruthyStr(TheSession.screenshot_url)
    /\ client

\* C8: after a "cancel" action on a session awaiting the user's action the
\* session is terminal: its action_required is None, the cursor is unchanged and
\* the turn delivers no further step.
C8_CancelEndsSession ==
    (/\ StepTurn
     /\ SaysCancel
     /\ turn.before_action = Some("wait_user_action"))
    => /\ TheSession.action_required = None
       /\ TheSession.current_step_index = turn.before_index
       /\ response.action_required = None
       /\ response.step_text = <<"Task cancelled.">>

\* a /step turn whose action is neither skip nor cancel: the handler calls
\* optional_validate_step
ValidatedTurn == StepTurn /\ ~SaysSkip /\ ~SaysCancel

\* C9: validation never blocks advancement: after a non-skip, non-cancel action
\* at step i that is not the last step, the cursor is i + 1, for every way
\* optional_validate_step returns.
C9_ValidationNeverBlocks ==
    (ValidatedTurn /\ turn.before_index < Len(TheSession.steps) - 1)
    => /\ TheSession.current_step_index = turn.before_index + 1
       /\ turn.validation \in {"no_click", "no_screenshot", "no_file", "raised",
                               "no_json", "bad_json", "invalid", "valid"}

\* C9 witness: the vision reply said valid = false and the cursor moved on
C9_AdvancedThoughInvalid ==
    /\ ValidatedTurn
    /\ turn.validation = "invalid"
    /\ turn.before_index < Len(TheSession.steps) - 1
    /\ TheSession.current_step_index = turn.before_index + 1

\* C10: when the validation of the current step in a /step turn yields
\* valid = false, the text the turn returns carries the explanation behind the
\* warning sign.
C10_WarningIsPresented ==
    (StepTurn /\ turn.validation = "invalid") => response.step_text[1] = WarningSign

\* the words wait_for_user_step_choice takes for a refusal
SaysNoThanks(reply) == ContainsAny({"no", "thanks", "thank you"}, reply)

\* C11: on a session that awaits the step choice, a reply that is not a refusal
\* (be it affirmative or neither) makes the workflow proceed to step_agent: the
\* mode becomes step_by_step with the cursor at 0.
C11_PermissiveStepChoice ==
    (/\ ChatReplyTurn
     /\ turn.before_action = Some("wait_step_choice")
     /\ Len(TheSession.steps) > 0
     /\ ~SaysNoThanks(turn.message))
    => /\ InTrace("step_agent")
       /\ TheSession.mode = "step_by_step"
       /\ TheSession.current_step_index = 0

\* the graph has just run fallback_review_steps and the review flagged a step
\* of the session
FlaggedStep ==
    /\ turn.endpoint = "graph"
    /\ turn.trace # <<>>
    /\ turn.trace[Len(turn.trace)] = "fallback"
    /\ TheSession.response_text[1] = "Let's start from step "
    /\ TheSession.current_step_index < Len(TheSession.steps)

ClosingMsg == "Okay, feel free to ask if you need help!"

\* a /chat turn whose workflow ran wait_for_user_step_choice on a stored reply
\* that the node takes for a refusal, and whose response is the closing message
DeclinedTurn ==
    /\ turn.endpoint = "chat" /\ turn.branch \in {"new", "existing"}
    /\ InTrace("wait_step_choice")
    /\ ~IsNone(TheSession.user_choice)
    /\ SaysNoThanks(Get(TheSession.user_choice))
    /\ response.response = <<ClosingMsg>>

\* C12: when the step-choice gate runs on a reply it classifies as negative
\* ("no", "thanks", "thank you") and the closing message is the turn's response,
\* the workflow ended at the gate: the gate is the last node of the turn,
\* step_agent did not run, the mode is simple and no action is awaited, in the
\* session and in the response.
C12_RefusalEndsTurn ==
    DeclinedTurn
    => /\ turn.trace[Len(turn.trace)] = "wait_step_choice"
       /\ ~InTrace("step_agent")
       /\ TheSession.mode = "simple"
       /\ TheSession.action_required = None
       /\ response.mode = "simple"
       /\ response.action_required = None

\* a refusal met the gate in a turn that had just generated an answer with steps
C12_DeclinedSteps ==
    /\ DeclinedTurn
    /\ InTrace("generate_answer")
    /\ Len(TheSession.steps) > 0

\* the reply of the turn holds one of the words /step takes for success
SaysYes == ContainsAny(yes_keywords, turn.message)
\* the reply of the turn holds one of the words /step takes for failure
SaysNo == ContainsAny(no_keywords, turn.message)

\* a /step turn on a session that was at the completion question
CompletionTurn ==
    /\ StepTurn
    /\ turn.before_action = Some("wait_task_completion_choice")
    /\ ~SaysCancel

\* C13: at the completion question, a /step reply that holds an affirmative
\* keyword ends the session: the response is the success message with no action
\* required, and the session awaits nothing and is back in mode simple.
C13_AffirmativeEnds ==
    (CompletionTurn /\ SaysYes)
    => /\ response.kind = "StepResponse"
       /\ response.step_text = <<CompletionMsg>>
       /\ response.action_required = None
       /\ TheSession.action_required = None
       /\ TheSession.mode = "simple"

\* the reply "yes" ended a session of more than one step at the completion question
C13_ConfirmedDone ==
    /\ CompletionTurn
    /\ turn.message = "yes"
    /\ Len(TheSession.steps) > 1
    /\ response.step_text = <<CompletionMsg>>
    /\ TheSession.action_required = None

\* the session is in the table and is stored at the completion question
AtCompletion ==
    /\ HasSession
    /\ TheSession.action_required = Some("wait_task_completion_choice")

\* the last step of the list under its header, with the completion question
LastStepQuestion(steps) ==
    CompletionText(Len(steps), Len(steps), steps[Len(steps)].text, CompletionQuestion)

\* the texts of the steps, without the fields the classifier fills in
StepTexts(steps) == [i \in DOMAIN steps |-> steps[i].text]

SeededTurn == turn.endpoint = "chat_step_by_step"

\* C17: after a /chat/step-by-step turn the answer stored in the session is the
\* rag_answer the request supplied, whatever the extraction of steps gave
\* (steps, no step, no client, an error).
C17_AnswerPreserved ==
    SeededTurn => TheSession.full_answer = turn.supplied

\* the /chat/step-by-step turn answered that no step could be extracted
ExtractionFailed ==
    response.response[1] = "Failed to extract steps from answer. Answer length: "

\* C18: a /chat/step-by-step turn that extracted at least one step ends with the
\* session in mode step_by_step, the cursor at 0, the first step presented under
\* its header and wait_user_action awaited, and it ran neither detect_intent nor
\* check_version nor retrieve, wherever the cursor of the session was before.
C18_SeededEntryStartsAtFirstStep ==
    (SeededTurn /\ ~ExtractionFailed)
    => /\ Len(TheSession.steps) > 0
       /\ TheSession.mode = "step_by_step"
       /\ TheSession.current_step_index = 0
       /\ TheSession.action_required = Some("wait_user_action")
       /\ response.response = StepHeaderText(0, TheSession.steps)
       /\ response.mode = "step_by_step"
       /\ response.action_required = Some("wait_user_action")
       /\ ~InTrace("detect_intent")
       /\ ~InTrace("check_version")
       /\ ~InTrace("retrieve")

\* the entry restarted a session whose cursor had moved past the first step
C18_RestartedFromLaterStep ==
    /\ SeededTurn
    /\ ~ExtractionFailed
    /\ turn.before_index > 0
    /\ TheSession.current_step_index = 0
    /\ TheSession.mode = "step_by_step"

\* a /chat turn that ran the workflow
WorkflowTurn == turn.endpoint = "chat" /\ turn.branch \in {"new", "existing"}

StepChoicePrompt == "Would you like me to show this step-by-step? (yes/no)"

\* C19: when a /chat turn generated an answer without steps, the turn ends in
\* mode simple with no step delivery offered: the session does not await the
\* step choice and the response holds no yes/no prompt.
C19_NoStepsNoOffer ==
    (WorkflowTurn /\ InTrace("generate_answer") /\ Len(TheSession.steps) = 0)
    => /\ TheSession.mode = "simple"
       /\ TheSession.action_required # Some("wait_step_choice")
       /\ response.action_required # Some("wait_step_choice")
       /\ \A i \in DOMAIN response.response : response.response[i] # StepChoicePrompt

\* the classifier's replies that carry no verdict: the call raised, or the
\* content is empty
NoVerdict == {Raised, [ok |-> TRUE, content |-> ""]}

\* a /chat turn whose message was taken as the query: the session was new, or
\* was not waiting for the step choice or the version choice
QueryTurn == WorkflowTurn /\ ~IsChoiceReply(turn.before_action)

\* C20: a /chat turn whose intent detection classified the query as out of
\* scope runs no other node (no check_version, retrieve or generate_answer) and
\* ends with no action awaited, in the session and in the response; and
\* detect_user_intent takes the query for an Ableton question when the
\* classifier gives no verdict, or when there is no client whatever the reply.
C20_OutOfScopeEnds ==
    /\ (QueryTurn /\ TheSession.intent = Some("other"))
       => /\ turn.trace = <<"detect_intent">>
          /\ TheSession.action_required = None
          /\ response.action_required = None
    /\ HasSession
       => \A r \in EnvChat.intent :
            (~client \/ r \in NoVerdict)
            => detect_user_intent(TheSession, r).intent = Some("ableton_question")

\* C21: on a session the compatibility evaluation (the retrieval of the version
\* chunks and the verdict request) is made at most once over all the turns: no
\* request makes one once a verdict is recorded in the session, and no /chat
\* turn makes one when the decision its workflow reads asks to proceed anyway.
C21_EvaluatedAtMostOnce ==
    [][/\ turn'.evaluations <= 1
       /\ (HasSession /\ ~IsNone(TheSession.allowed))
          => turn'.evaluations = turn.evaluations
       /\ (WorkflowTurn' /\ ProceedAnyway(TheSession'.user_choice))
          => turn'.evaluations = turn.evaluations]_vars

\* a /chat turn ran check_version on a session whose verdict came from an
\* earlier verdict request, and made no evaluation
C21_SkippedSecondCheck ==
    /\ WorkflowTurn
    /\ InTrace("check_version")
    /\ ~turn.evaluated
    /\ turn.evaluations = 1
    /\ TheSession.version_explanation = Some("available in every edition")

\* the words should_continue_after_version_choice takes for giving the task up
SaysNewTask(reply) == ContainsAny({"new task", "cancel"}, reply)

\* C22: on a session that awaits the version choice, a /chat reply that holds
\* "new task" or "cancel" ends the workflow without retrieve or generate_answer
\* and with nothing awaited, and any other reply makes the workflow proceed to
\* retrieve.
C22_VersionChoiceRouted ==
    (ChatReplyTurn /\ turn.before_action = Some("wait_version_choice"))
    => IF SaysNewTask(turn.message)
       THEN /\ ~InTrace("retrieve")
            /\ ~InTrace("generate_answer")
            /\ TheSession.action_required = None
       ELSE InTrace("retrieve")

\* C23: a request that is answered with the status 500 (an internal error)
\* leaves the session table as it was before the request: no session is
\* created and no field of a session is modified.
C23_AbortKeepsSession ==
    [][(response'.kind = "HTTPException" /\ response'.status = 500)
       => sessions' = sessions]_vars

\* the last request named a session: a step action, a step validation or a
\* status query
NamesSession == turn.endpoint \in {"step", "validate", "status"}

\* C24: a step action, a step validation or a status query for an identifier that
\* is not in the session table is rejected with 404 "Session not found" and
\* leaves the table as it was; a step action on a session whose cursor is at or
\* past len(steps) is rejected with 400 "No more steps".
C24_UnknownOrExhaustedRejected ==
    [][/\ (NamesSession' /\ ~InTable(turn'.request_id))
            => /\ response' = HTTPException(404, "Session not found")
               /\ sessions' = sessions
       /\ (/\ turn'.endpoint = "step"
           /\ InTable(turn'.request_id)
           /\ Get(sessions[turn'.request_id]).current_step_index
                >= Len(Get(sessions[turn'.request_id]).steps))
            => response' = HTTPException(400, "No more steps")]_vars

\* a step was asked to be validated for an identifier that is not in the table,
\* while the table holds another session, and the request was rejected
C24_UnknownValidateRejected ==
    /\ turn.endpoint = "validate"
    /\ turn.request_id \in UnknownIds
    /\ HasSession
    /\ response = HTTPException(404, "Session not found")

\* the stages in which a session awaits the user's input
AwaitingStages ==
    {Some("wait_version_choice"), Some("wait_step_choice"),
     Some("wait_user_action"), Some("wait_task_completion_choice")}

\* the text a response presents to the user: the response of a ChatResponse, the
\* step_text of a StepResponse, the detail of a rejection
PresentedText(r) ==
    IF r.kind = "ChatResponse" THEN r.response
    ELSE IF r.kind = "StepResponse" THEN r.step_text
    ELSE IF r.kind = "HTTPException" THEN <<r.detail>>
    ELSE <<>>

\* the last request was a turn of the conversation: /chat, /chat/step-by-step or
\* /step for a session of the table
ConversationTurn ==
    /\ turn.endpoint \in {"chat", "chat_step_by_step", "step"}
    /\ HasSession

\* C25: every turn that leaves the session in an awaiting-input stage (version
\* choice, step choice, user action, task-completion choice) returns non-empty
\* presented text, whichever endpoint served it.
C25_AwaitingStagePresentsText ==
    (ConversationTurn /\ TheSession.action_required \in AwaitingStages)
    => TruthyText(PresentedText(response))

\* a /chat turn on a session that already awaited the step choice ran no node
\* that writes response_text, and the response still presents text
C25_PresentedWithoutNodeText ==
    /\ ChatReplyTurn
    /\ TheSession.action_required = Some("wait_step_choice")
    /\ ~TruthyText(TheSession.response_text)
    /\ response.kind = "ChatResponse"
    /\ TruthyText(response.response)

\* C26: turns for one session identifier never interleave: at any moment at
\* most one request for the identifier has a handler that has started and not
\* yet returned, so the reads and writes of a turn are not mixed with another's.
C26_OneTurnInFlight ==
    \A session_id \in SessionIds : Cardinality(InFlight(session_id)) <= 1

\* a turn for a session is running while a second request for the same session
\* has arrived on another connection and waits for the loop; the session is in
\* the table
C26_SecondRequestWaits ==
    /\ HasSession
    /\ \E c, d \in DOMAIN loop :
        /\ c # d
        /\ loop[c].stage = "running"
        /\ loop[d].stage = "pending"
        /\ loop[c].session_id = loop[d].session_id

\* the last call was rag_store.retrieve
Retrieved == response.kind = "retrieve"

\* the place of a returned fragment in the index it was loaded into
LoadPlace(index, fragment) == CHOOSE i \in DOMAIN index : index[i].id = fragment.id

\* the similarity of a returned fragment to the query of the call
FragmentScore(index, fragment) ==
    cosine_similarity(response.query_embedding, index[LoadPlace(index, fragment)].embedding)

\* a returned list is ordered by non-increasing similarity, fragments of equal
\* similarity in the order they were loaded
OrderedBySimilarity(index, list) ==
    \A i, j \in DOMAIN list :
        i < j => /\ ~SimLess(FragmentScore(index, list[i]), FragmentScore(index, list[j]))
                 /\ ~SimLess(FragmentScore(index, list[j]), FragmentScore(index, list[i]))
                        => LoadPlace(index, list[i]) < LoadPlace(index, list[j])

\* C27: retrieve returns at most top_k fragments of the general index and at most
\* VERSION_CHECK_TOP_K of the versions index, each list by non-increasing
\* similarity to the query with equal similarities in load order, and the
\* edition passed makes no difference to the result.
C27_RetrieveTopKOrdered ==
    Retrieved =>
        /\ Len(response.result.full) <= response.top_k
        /\ Len(response.result.versions) <= VERSION_CHECK_TOP_K
        /\ OrderedBySimilarity(rag_store.full_index, response.result.full)
        /\ OrderedBySimilarity(rag_store.versions_index, response.result.versions)
        /\ \A edition \in EnvRetrieve.editions :
              retrieve(rag_store, response.query_embedding, edition, response.top_k)
                = response.result

\* the versions index holds three chunks, the two that tie on the query loaded
\* after the third; retrieve cut the list to the two best, the tie in load order
C27_TieCutToTwo ==
    /\ Retrieved
    /\ Len(rag_store.versions_index) = 3
    /\ Len(response.result.versions) = 2
    /\ response.result.versions[1].id = "b"
    /\ response.result.versions[2].id = "a"
    /\ response.query_embedding = <<1, 0>>

\* the last call was _cosine_similarity
Compared == response.kind = "cosine"

\* a call raised
HasRaised(result) == "raised" \in DOMAIN result

\* C28: the cosine similarity of two vectors of different lengths is 0, and the
\* computation raises for no pair of vectors, empty and zero vectors included.
C28_CosineTotal ==
    Compared =>
        /\ ~HasRaised(response.result)
        /\ Len(response.vec1) # Len(response.vec2) => response.result = [n |-> 0, d |-> 1]

\* the similarity of the empty vector and a vector of two components was
\* computed, and it is 0
C28_MismatchedCompared ==
    /\ Compared
    /\ response.vec1 = <<>>
    /\ response.vec2 = <<1, 2>>
    /\ response.result = [n |-> 0, d |-> 1]

\* C29: with both embedding files absent both indexes are empty, retrieve
\* returns two empty lists without raising, and check_ableton_version, when it
\* evaluates the request on that result, records allowed = True.
C29_AbsentFilesAllow ==
    rag_store = load_indexes(FilesAbsent) =>
        /\ rag_store.full_index = <<>>
        /\ rag_store.versions_index = <<>>
        /\ Retrieved => response.result = [full |-> <<>>, versions |-> <<>>]
        /\ (WorkflowTurn /\ turn.evaluated) => TheSession.allowed = Some(TRUE)

\* a /chat turn evaluated the compatibility over the empty store and recorded
\* allowed = True, the capability not asked
C29_EvaluatedOverEmptyStore ==
    /\ rag_store = load_indexes(FilesAbsent)
    /\ WorkflowTurn
    /\ turn.evaluated
    /\ TheSession.allowed = Some(TRUE)
    /\ TheSession.version_explanation = None

\* the last request asked where the button is
ShowButtonTurn == turn.endpoint = "chat" /\ turn.branch = "show_button"

\* the vision capability answered with text that holds no JSON object, or a
\* malformed one
NoUsableJson == turn.locate.kind \in {"none", "malformed"}

\* C30: when the vision capability returns text with no JSON object, or with a
\* malformed one, analyze_screenshot_for_button returns without raising and the
\* current step has no region afterwards, also when an earlier attempt had
\* recorded one.
C30_NoJsonClearsRegion ==
    (ShowButtonTurn /\ NoUsableJson)
    => /\ response.kind = "ChatResponse"
       /\ ~HasRegion(TheSession)

\* the current step had a region from an earlier attempt, the capability then
\* answered with a malformed object, and the region is gone
C30_RegionDropped ==
    /\ ShowButtonTurn
    /\ turn.locate = [kind |-> "malformed", had_coords |-> TRUE]
    /\ TheSession.current_step_index < Len(TheSession.steps)
    /\ ~HasRegion(TheSession)

\* the vision capability was not asked: no step at the cursor, no screenshot
\* reference, no client, or the screenshot file does not exist
NotAsked == turn.locate.kind = "not_called"

\* C31: when the button is asked for and the vision capability cannot be asked
\* (no screenshot reference, a screenshot file that does not exist, no client),
\* the current step has no region afterwards, one recorded earlier included,
\* and the turn still ends with a response and not with an error.
C31_SoftFailureClearsRegion ==
    (ShowButtonTurn /\ NotAsked)
    => /\ response.kind = "ChatResponse"
       /\ ~HasRegion(TheSession)

\* the last call was optional_validate_step on a state whose cursor is on a step
ValidationCalled ==
    /\ response.kind = "optional_validate_step"
    /\ response.given.current_step_index < Len(response.given.steps)

\* the step at the cursor of the state given
GivenStep == response.given.steps[response.given.current_step_index + 1]

\* C32: optional_validate_step returns the state it was given, response_text and
\* every other field unchanged, whenever the current step is not marked
\* requires_click, no screenshot is present, or the last user choice contains
\* "skip".
C32_ValidationNoOp ==
    (/\ ValidationCalled
     /\ \/ ~GivenStep.requires_click
        \/ ~TruthyStr(response.given.screenshot_url)
        \/ ValidateSkips(response.given.user_choice))
    => response.returned = response.given

\* the step requires a click and a screenshot is present, the user chose skip,
\* and the state came back as given
C32_SkippedClickStepUntouched ==
    /\ ValidationCalled
    /\ GivenStep.requires_click
    /\ TruthyStr(response.given.screenshot_url)
    /\ ValidateSkips(response.given.user_choice)
    /\ response.returned = response.given

\* the last request ended the session with the success message: the session
\* awaits nothing
Completed ==
    /\ HasSession
    /\ response.kind = "StepResponse"
    /\ response.step_text = <<CompletionMsg>>
    /\ TheSession.action_required = None

\* C33: once a session has reached terminal completion (success message
\* delivered, nothing awaited), the next /step action is rejected with 400
\* "No more steps"; it re-enters neither final confirmation nor step delivery.
C33_CompletedRejectsSteps ==
    [][(Completed /\ turn'.endpoint = "step")
        => response' = HTTPException(400, "No more steps")]_vars

\* C34: a user decision is consumed by the stage it answers: a /chat turn for a
\* new query that generates the answer stops at the step-choice prompt; it does
\* not start step-by-step delivery in the same turn on a decision left in the
\* session by an earlier stage or an earlier /step action.
C34_DecisionConsumedByItsStage ==
    (QueryTurn /\ InTrace("generate_answer"))
    => /\ ~InTrace("step_agent")
       /\ TheSession.mode # "step_by_step"

\* the cursor and the number of steps of the session
Cursor == TheSession.current_step_index
StepCount == Len(TheSession.steps)

\* C35: a /step action on a session with n >= 1 steps and the cursor in
\* [0, n - 1] leaves the cursor in [0, n - 1]: it never becomes n, also not when
\* the user acted on the last step or confirmed completion; it stays or moves
\* forward by one, unless a negative reply restarts the walk at 0.
C35_CursorStaysOnAStep ==
    [][(/\ turn'.endpoint = "step"
        /\ HasSession
        /\ StepCount >= 1
        /\ Cursor \in 0..(StepCount - 1))
       => /\ HasSession'
          /\ Cursor' \in 0..(StepCount' - 1)
          /\ \/ Cursor' \in {Cursor, Cursor + 1}
             \/ Cursor' = 0 /\ ContainsAny(no_keywords, turn'.message)]_vars

\* the user acted on the last of three steps with "next" and the cursor is
\* still on the last step
C35_ActedOnLastStep ==
    /\ StepTurn
    /\ turn.message = "next"
    /\ StepCount = 3
    /\ turn.before_index = 2
    /\ Cursor = 2

\* C36: a show_button request changes only the current step's region and the
\* session's screenshot, history and edition: the cursor, the step texts, the
\* original query, the mode and the awaited stage are after the request what
\* they were before it.
C36_ShowButtonFrame ==
    [][(turn'.endpoint = "chat" /\ turn'.branch = "show_button")
       => /\ Cursor' = Cursor
          /\ StepTexts(TheSession'.steps) = StepTexts(TheSession.steps)
          /\ TheSession'.user_query = TheSession.user_query
          /\ TheSession'.mode = TheSession.mode
          /\ TheSession'.action_required = TheSession.action_required]_vars

\* C37: while a session awaits input at any stage (version choice, step choice,
\* user action, task-completion choice), a /chat message is taken as the reply
\* to that stage and never replaces the session's original query.
C37_ReplyKeepsQuery ==
    [][(/\ turn'.endpoint = "chat"
        /\ turn'.branch = "existing"
        /\ HasSession
        /\ TheSession.action_required \in
                {Some("wait_version_choice"), Some("wait_step_choice"),
                 Some("wait_user_action"), Some("wait_task_completion_choice")})
       => TheSession'.user_query = TheSession.user_query]_vars

\* C38: a /step action rejected with 400 "No more steps" leaves the session as
\* it was: the stored user choice and screenshot reference are after the
\* rejected request what they were before it.
C38_RejectedStepKeepsSession ==
    [][(/\ turn'.endpoint = "step"
        /\ response' = HTTPException(400, "No more steps"))
       => /\ sessions' = sessions
          /\ TheSession'.user_choice = TheSession.user_choice
          /\ TheSession'.screenshot_url = TheSession.screenshot_url]_vars

\* the request is a /step action or a show_button request on a session of the
\* table
WalkRequest(t) ==
    \/ t.endpoint = "step" /\ t.branch = "existing"
    \/ t.endpoint = "chat" /\ t.branch = "show_button"

\* C39: over any sequence of /step actions (next, skip, cancel, replies at the
\* completion question, restart) and show_button requests, the number, the
\* order and the texts of the session's steps stay as extracted; only the
\* requires_click flag and the region of a step may change.
C39_StepTextsFrozen ==
    [][(WalkRequest(turn') /\ HasSession)
       => /\ HasSession'
          /\ StepTexts(TheSession'.steps) = StepTexts(TheSession.steps)]_vars

\* a negative reply at the completion question restarted a walk of three steps,
\* and the steps are the three that were extracted
C39_RestartedWithSameSteps ==
    /\ StepTurn
    /\ ContainsAny(no_keywords, turn.message)
    /\ turn.before_index = 2
    /\ Cursor = 0
    /\ StepTexts(TheSession.steps) = StepTexts(ReplySteps(3, None))
-----------------------------------------------------------------------------
(* The specifications *)

\* the walk through the steps
SpecStep == Init(EnvStep) /\ [][Next(EnvStep)]_vars

\* the conversation
SpecChat == Init(EnvChat) /\ [][Next(EnvChat)]_vars

\* the graph from the edge that leaves final_confirmation
SpecGraph == InitGraph(EnvGraph) /\ [][GraphNode(EnvGraph)]_vars

\* the entry with a supplied answer
SpecSeed == Init(EnvSeed) /\ [][Next(EnvSeed)]_vars

\* the walk with a classifier that may answer null
SpecFault == Init(EnvFault) /\ [][Next(EnvFault)]_vars

\* the requests that name a session, known or not
SpecQuery == Init(EnvQuery) /\ [][NextAll(EnvQuery)]_vars

\* requests for one session over concurrent connections
SpecLoop == Init(EnvLoop) /\ [][NextLoop(EnvLoop)]_vars

\* the retrieval store on its own
SpecRetrieve == Init(EnvRetrieve) /\ [][NextRetrieve(EnvRetrieve)]_vars

\* the similarity on its own
SpecCosine == Init(EnvCosine) /\ [][NextCosine(EnvCosine)]_vars

\* the app started without the embedding files
SpecAbsent == Init(EnvAbsent) /\ [][NextAbsent(EnvAbsent)]_vars

\* the app while the button is located
SpecLocate == Init(EnvLocate) /\ [][Next(EnvLocate)]_vars

\* the app and the validation of a step
SpecValidate == Init(EnvValidate) /\ [][NextValidate(EnvValidate)]_vars

====
